---- MODULE Spec2Model ----
(***************************************************************************)
(* Streaming chat pipeline of chat-gui: the fixed-window rate limiter      *)
(* (src/lib/rate-limit.ts), the two provider adapters and the provider     *)
(* manager (src/lib/ai-providers.ts) and the streaming endpoint            *)
(* (src/app/api/chat/stream/route.ts).                                     *)
(*                                                                         *)
(* Specifications: SpecRL (the rate limiter), Spec (one request to the     *)
(* streaming endpoint), SpecRelay (the relay loop on any event sequence)   *)
(* and SpecManager (the provider manager called on its own).               *)
(*                                                                         *)
(* Text is modelled as a sequence of one-character strings, so that the    *)
(* scanners of the adapters work character by character as the code does.  *)
(***************************************************************************)
EXTENDS Integers, Sequences, FiniteSets, TLC

(***************************************************************************)
(* Bounds of the model.                                                    *)
(***************************************************************************)
\* limit passed to rateLimit (RATE_LIMIT_REQUESTS_PER_MINUTE), kept small
LimitN == 2
\* windowMs passed to rateLimit, in clock ticks
WindowMs == 2
\* the clock Date.now() runs from 0 to MaxTime
MaxTime == 6
\* calls recorded per key and window
MaxCalls == 4

\* events of a stream fed directly to the relay loop
MaxEvents == 3

\* messages the caller's existing conversation holds before the request
HistoryLen == 21

\* `take: 20` of the conversation load (route.ts:93)
ContextTake == 20

Keys == {"u1", "u2"}

VARIABLES
    \* ---- rate limiter (src/lib/rate-limit.ts) ----
    store,        \* the module-level store: key -> record or NoRec
    now,          \* Date.now()
    rlLast,       \* the last call of rateLimit: key, time, record before, result
    winEnd,       \* history: end of the window opened by the call that created the record
    winHist,      \* history: results of the calls made in that window, in order
    \* ---- one request to POST /api/chat/stream ----
    pc,           \* position of the handler
    req,          \* the request body: message, conversationId, modelId
    http,         \* status of the HTTP response, 0 while there is none
    models,       \* the Model table, ordered by createdAt, and the user's preference
    configured,   \* the providers whose API key is set
    conversation, \* id of the conversation loaded or created
    isNewConversation,
    selectedModel,
    history,      \* conversation.messages as loaded with the conversation
    aiMessages,   \* the messages handed to the provider
    \* ---- persistence (prisma) ----
    db,           \* committed rows: messages, apiUsage, conversations
    tx,           \* writes staged by the open transaction
    txStep,       \* number of writes the transaction callback has made
    txFailed,     \* history: the transaction was rolled back
    titleTask,    \* generateConversationTitle: none, running, done, failed
    \* ---- streamState of the request ----
    fullContent,
    isComplete,
    streamError,
    usage,        \* inputTokens, outputTokens, totalTokens: of streamState, and the
                  \* locals of these names in POST /api/chat
    \* ---- the adapter generator behind aiManager.chatStream ----
    adapter,      \* the adapter the manager delegates to
    upstream,     \* what the provider's HTTP API answers
    wire,         \* characters of the response body not read yet
    agen,         \* notStarted, reading, returned
    buffer,
    hasReceivedContent,
    pending,      \* events produced by the last read, not yet taken by the for-await loop
    emitted,      \* history: every event the generator produced
    gFrames,      \* history: every object the Gemini scanner handed to JSON.parse
    readFault,    \* history: none, truncated (body ended early), failed (read threw)
    carried,      \* history: a read left an incomplete frame or line in the buffer
    mgrCall,      \* the call made on the AIProviderManager: method and provider name
    chatResult,   \* outcome of the blocking chat: none, returned, threw
    \* ---- the ReadableStream returned to the client ----
    frames,       \* frames enqueued, by type
    outState,     \* none, readable, closed (by the handler), cancelled, errored
    caught,       \* history: the error the catch block of start caught, "" for none
    \* ---- the chat component in the browser ----
    client        \* state of EnhancedChatInterface and of its handleSubmit

rlVars == <<store, now, rlLast, winEnd, winHist>>

reqVars == <<pc, req, http, models, configured, conversation, isNewConversation,
             selectedModel, history, aiMessages>>

dbVars == <<db, tx, txStep, txFailed, titleTask>>

stVars == <<fullContent, isComplete, streamError, usage>>

adVars == <<adapter, upstream, wire, agen, buffer, hasReceivedContent, pending,
            emitted, gFrames, readFault, carried, mgrCall, chatResult>>

outVars == <<frames, outState, caught>>

vars == <<rlVars, reqVars, dbVars, stVars, adVars, outVars, client>>

(***************************************************************************)
(* Text helpers (JavaScript string operations used by the code)            *)
(***************************************************************************)
\* whitespace characters of the model's alphabet
WS == {" ", "\n", "\r"}

RECURSIVE TrimStart(_)
TrimStart(s) == IF s # <<>> /\ Head(s) \in WS THEN TrimStart(Tail(s)) ELSE s

RECURSIVE TrimEnd(_)
TrimEnd(s) ==
    IF s # <<>> /\ s[Len(s)] \in WS THEN TrimEnd(SubSeq(s, 1, Len(s) - 1)) ELSE s

\* String.prototype.trim
Trim(s) == TrimEnd(TrimStart(s))

\* String.prototype.split(sep) for a one-character separator
RECURSIVE SplitOn(_, _)
SplitOn(s, sep) ==
    IF \E i \in 1..Len(s) : s[i] = sep
    THEN LET i == CHOOSE i \in 1..Len(s) :
                     s[i] = sep /\ \A j \in 1..(i - 1) : s[j] # sep
         IN  <<SubSeq(s, 1, i - 1)>> \o SplitOn(SubSeq(s, i + 1, Len(s)), sep)
    ELSE <<s>>

\* String.prototype.startsWith
StartsWith(s, p) == Len(s) >= Len(p) /\ SubSeq(s, 1, Len(p)) = p

\* concatenation of a sequence of texts
RECURSIVE Flatten(_)
Flatten(ss) == IF ss = <<>> THEN <<>> ELSE Head(ss) \o Flatten(Tail(ss))

(***************************************************************************)
(* StreamChunk (src/lib/ai-providers.ts:15-22). An absent string field is  *)
(* the empty text: both are falsy where the code tests them.               *)
(***************************************************************************)
ContentEv(d) == [type |-> "content", delta |-> d, content |-> <<>>, error |-> ""]
CumulativeEv(c) == [type |-> "content", delta |-> <<>>, content |-> c, error |-> ""]
DoneEv == [type |-> "done", delta |-> <<>>, content |-> <<>>, error |-> ""]
ErrorEv(m) == [type |-> "error", delta |-> <<>>, content |-> <<>>, error |-> m]

IsTerminal(e) == e.type \in {"done", "error"}

(***************************************************************************)
(* JSON of the upstream payloads. The wire format is abstracted to the     *)
(* characters the code looks at: braces, quotes, backslashes and text.     *)
(*   string        "..." with \" and \\ escapes                            *)
(*   Gemini object { {"text"} F }   F is empty, S (finishReason STOP),     *)
(*                                  M (MAX_TOKENS) or O (another reason);  *)
(*                                  the inner object may be missing        *)
(*   OpenRouter    {"delta"} or {}                                         *)
(***************************************************************************)
\* JSON.stringify of a string: the upstream's serialisation
RECURSIVE EscapeText(_)
EscapeText(t) ==
    IF t = <<>> THEN <<>>
    ELSE (IF Head(t) \in {"\"", "\\"} THEN <<"\\", Head(t)>> ELSE <<Head(t)>>)
            \o EscapeText(Tail(t))

Quoted(t) == <<"\"">> \o EscapeText(t) \o <<"\"">>

BadParse == [ok |-> FALSE, text |-> <<>>, rest |-> <<>>]

\* JSON.parse of the characters after an opening quote, up to the closing one
RECURSIVE StrBody(_, _)
StrBody(s, acc) ==
    IF s = <<>> THEN BadParse
    ELSE IF Head(s) = "\"" THEN [ok |-> TRUE, text |-> acc, rest |-> Tail(s)]
    ELSE IF Head(s) = "\\"
         THEN IF Len(s) >= 2 /\ s[2] \in {"\"", "\\"}
              THEN StrBody(Tail(Tail(s)), Append(acc, s[2]))
              ELSE BadParse
    ELSE IF Head(s) \in {"\n", "\r"} THEN BadParse
    ELSE StrBody(Tail(s), Append(acc, Head(s)))

NoJSON == [ok |-> FALSE, text |-> <<>>, finishReason |-> ""]

FinishOf(f) ==
    IF f = <<"S">> THEN "STOP"
    ELSE IF f = <<"M">> THEN "MAX_TOKENS"
    ELSE IF f = <<"O">> THEN "OTHER" ELSE ""

\* JSON.parse(jsonStr) of a Gemini object, read as the code reads it:
\* text is candidates[0].content.parts[0].text, finishReason is
\* candidates[0].finishReason
GeminiJSON(js) ==
    IF Len(js) < 2 \/ js[1] # "{" \/ js[Len(js)] # "}" THEN NoJSON
    ELSE LET inner == SubSeq(js, 2, Len(js) - 1)
             hasText == Len(inner) >= 2 /\ inner[1] = "{" /\ inner[2] = "\""
             str == IF hasText THEN StrBody(SubSeq(inner, 3, Len(inner)), <<>>)
                    ELSE [ok |-> TRUE, text |-> <<>>, rest |-> <<"}">> \o inner]
             fin == IF str.ok /\ str.rest # <<>> THEN Tail(str.rest) ELSE <<"?">>
         IN  IF str.ok /\ str.rest # <<>> /\ Head(str.rest) = "}"
                /\ fin \in {<<>>, <<"S">>, <<"M">>, <<"O">>}
             THEN [ok |-> TRUE, text |-> str.text, finishReason |-> FinishOf(fin)]
             ELSE NoJSON

\* JSON.parse(data) of an OpenRouter line, read as the code reads it:
\* text is choices[0].delta.content
OpenRouterJSON(data) ==
    IF data = <<"{", "}">> THEN [ok |-> TRUE, text |-> <<>>, finishReason |-> ""]
    ELSE IF Len(data) >= 4 /\ data[1] = "{" /\ data[2] = "\""
         THEN LET str == StrBody(SubSeq(data, 3, Len(data)), <<>>)
              IN  IF str.ok /\ str.rest = <<"}">>
                  THEN [ok |-> TRUE, text |-> str.text, finishReason |-> ""]
                  ELSE NoJSON
    ELSE NoJSON

(***************************************************************************)
(* OpenRouterAPI.chatStream: the work done on one upstream read            *)
(***************************************************************************)
DataPrefix == <<"d", "a", "t", "a", ":", " ">>

DoneSentinel == <<"[", "D", "O", "N", "E", "]">>

\* lines 110-132: the complete lines of one read, in order; returned is TRUE
\* when the generator has returned at the [DONE] line
RECURSIVE OpenRouterLines(_, _)
OpenRouterLines(lines, evs) ==
    IF lines = <<>> THEN [events |-> evs, returned |-> FALSE]
    ELSE LET line == Head(lines)
             data == Trim(SubSeq(line, Len(DataPrefix) + 1, Len(line)))
             parsed == OpenRouterJSON(data)
         IN  IF ~StartsWith(line, DataPrefix)
             THEN OpenRouterLines(Tail(lines), evs)
             ELSE IF data = DoneSentinel
             THEN [events |-> Append(evs, DoneEv), returned |-> TRUE]
             ELSE IF parsed.ok /\ parsed.text # <<>>
             THEN OpenRouterLines(Tail(lines), Append(evs, ContentEv(parsed.text)))
             ELSE OpenRouterLines(Tail(lines), evs)

\* the read that splits the new chunk only and forgets the partial line
OpenRouterRead_DropBuffer(buf, chunk) ==
    LET lines == SplitOn(chunk, "\n")
        r == OpenRouterLines(SubSeq(lines, 1, Len(lines) - 1), <<>>)
    IN  [buffer |-> lines[Len(lines)], events |-> r.events, returned |-> r.returned]

\* lines 106-132: one read of the loop
OpenRouterRead(buf, chunk) ==
    LET lines == SplitOn(buf \o chunk, "\n")
        r == OpenRouterLines(SubSeq(lines, 1, Len(lines) - 1), <<>>)
    IN  [buffer |-> lines[Len(lines)], events |-> r.events, returned |-> r.returned]

(***************************************************************************)
(* GeminiAPI.chatStream: the frame scanner and the object classification   *)
(***************************************************************************)
\* the words yielded without the space that separated them
RECURSIVE WordEvents_NoSpace(_, _)
WordEvents_NoSpace(words, wordIndex) ==
    IF wordIndex > Len(words) THEN <<>>
    ELSE <<ContentEv(words[wordIndex])>> \o WordEvents_NoSpace(words, wordIndex + 1)

\* lines 314-327: one content event per word of the complete response
RECURSIVE WordEvents(_, _)
WordEvents(words, wordIndex) ==
    IF wordIndex > Len(words) THEN <<>>
    ELSE <<ContentEv(words[wordIndex]
                     \o (IF wordIndex < Len(words) THEN <<" ">> ELSE <<>>))>>
         \o WordEvents(words, wordIndex + 1)

\* the classification that yields done without returning from the generator
GeminiObject_NoReturn(jsonStr, hasReceived) ==
    LET parsed == GeminiJSON(jsonStr)
    IN  IF ~parsed.ok
        THEN [events |-> <<>>, hasReceivedContent |-> hasReceived, returned |-> FALSE]
        ELSE IF parsed.text # <<>> /\ parsed.finishReason = "STOP"
        THEN [events |-> (IF ~hasReceived
                          THEN WordEvents(SplitOn(parsed.text, " "), 1)
                          ELSE <<>>) \o <<DoneEv>>,
              hasReceivedContent |-> TRUE,
              returned |-> FALSE]
        ELSE LET evs == IF parsed.text # <<>> THEN <<ContentEv(parsed.text)>> ELSE <<>>
                 fin == parsed.finishReason \in {"STOP", "MAX_TOKENS"}
             IN  [events |-> evs \o (IF fin THEN <<DoneEv>> ELSE <<>>),
                  hasReceivedContent |-> hasReceived \/ parsed.text # <<>>,
                  returned |-> FALSE]

\* lines 300-354: what one recovered object yields
GeminiObject(jsonStr, hasReceived) ==
    LET parsed == GeminiJSON(jsonStr)
    IN  IF ~parsed.ok
        THEN [events |-> <<>>, hasReceivedContent |-> hasReceived, returned |-> FALSE]
        ELSE IF parsed.text # <<>> /\ parsed.finishReason = "STOP"
        THEN [events |-> (IF ~hasReceived
                          THEN WordEvents(SplitOn(parsed.text, " "), 1)
                          ELSE <<>>) \o <<DoneEv>>,
              hasReceivedContent |-> TRUE,
              returned |-> TRUE]
        ELSE LET evs == IF parsed.text # <<>> THEN <<ContentEv(parsed.text)>> ELSE <<>>
                 fin == parsed.finishReason \in {"STOP", "MAX_TOKENS"}
             IN  [events |-> evs \o (IF fin THEN <<DoneEv>> ELSE <<>>),
                  hasReceivedContent |-> hasReceived \/ parsed.text # <<>>,
                  returned |-> fin]

\* the scan that does not know escapes: every quote toggles the string state
RECURSIVE GeminiScan_NoEscape(_, _, _, _, _, _, _)
GeminiScan_NoEscape(buf, i, startIndex, braceCount, inString, escaped, acc) ==
    IF i > Len(buf)
    THEN [buffer |-> buf, events |-> acc.events, frames |-> acc.frames,
          hasReceivedContent |-> acc.hasReceivedContent, returned |-> FALSE]
    ELSE LET char == buf[i]
         IN  IF char = "\""
             THEN GeminiScan_NoEscape(buf, i + 1, startIndex, braceCount, ~inString,
                                      FALSE, acc)
             ELSE IF ~inString /\ char = "{"
             THEN GeminiScan_NoEscape(buf, i + 1, IF braceCount = 0 THEN i ELSE startIndex,
                                      braceCount + 1, inString, FALSE, acc)
             ELSE IF ~inString /\ char = "}" /\ braceCount - 1 = 0
             THEN LET jsonStr == SubSeq(buf, startIndex, i)
                      o == GeminiObject(jsonStr, acc.hasReceivedContent)
                      acc2 == [events |-> acc.events \o o.events,
                               frames |-> Append(acc.frames, jsonStr),
                               hasReceivedContent |-> o.hasReceivedContent]
                  IN  IF o.returned
                      THEN [buffer |-> buf, events |-> acc2.events,
                            frames |-> acc2.frames,
                            hasReceivedContent |-> acc2.hasReceivedContent,
                            returned |-> TRUE]
                      ELSE GeminiScan_NoEscape(SubSeq(buf, i + 1, Len(buf)), 1, 1, 0,
                                               inString, FALSE, acc2)
             ELSE IF ~inString /\ char = "}"
             THEN GeminiScan_NoEscape(buf, i + 1, startIndex, braceCount - 1, inString,
                                      FALSE, acc)
             ELSE GeminiScan_NoEscape(buf, i + 1, startIndex, braceCount, inString,
                                      FALSE, acc)

\* lines 264-364: the scan of the buffer after one read. i and startIndex are
\* positions in buf (from 1); acc collects the events yielded, the objects
\* handed to JSON.parse and hasReceivedContent
RECURSIVE GeminiScan(_, _, _, _, _, _, _)
GeminiScan(buf, i, startIndex, braceCount, inString, escaped, acc) ==
    IF i > Len(buf)
    THEN [buffer |-> buf, events |-> acc.events, frames |-> acc.frames,
          hasReceivedContent |-> acc.hasReceivedContent, returned |-> FALSE]
    ELSE LET char == buf[i]
         IN  IF escaped
             THEN GeminiScan(buf, i + 1, startIndex, braceCount, inString, FALSE, acc)
             ELSE IF char = "\\" /\ inString
             THEN GeminiScan(buf, i + 1, startIndex, braceCount, inString, TRUE, acc)
             ELSE IF char = "\""
             THEN GeminiScan(buf, i + 1, startIndex, braceCount, ~inString, FALSE, acc)
             ELSE IF ~inString /\ char = "{"
             THEN GeminiScan(buf, i + 1, IF braceCount = 0 THEN i ELSE startIndex,
                             braceCount + 1, inString, FALSE, acc)
             ELSE IF ~inString /\ char = "}" /\ braceCount - 1 = 0
             THEN LET jsonStr == SubSeq(buf, startIndex, i)
                      o == GeminiObject(jsonStr, acc.hasReceivedContent)
                      acc2 == [events |-> acc.events \o o.events,
                               frames |-> Append(acc.frames, jsonStr),
                               hasReceivedContent |-> o.hasReceivedContent]
                  IN  IF o.returned
                      THEN [buffer |-> buf, events |-> acc2.events,
                            frames |-> acc2.frames,
                            hasReceivedContent |-> acc2.hasReceivedContent,
                            returned |-> TRUE]
                      ELSE GeminiScan(SubSeq(buf, i + 1, Len(buf)), 1, 1, 0,
                                      inString, FALSE, acc2)
             ELSE IF ~inString /\ char = "}"
             THEN GeminiScan(buf, i + 1, startIndex, braceCount - 1, inString, FALSE, acc)
             ELSE GeminiScan(buf, i + 1, startIndex, braceCount, inString, FALSE, acc)

\* the read that scans the new chunk only and forgets what was carried over
GeminiRead_DropBuffer(buf, chunk, hasReceived) ==
    GeminiScan(chunk, 1, 1, 0, FALSE, FALSE,
               [events |-> <<>>, frames |-> <<>>, hasReceivedContent |-> hasReceived])

\* lines 261-267: one read of the loop; the scan starts over from the
\* beginning of the buffer with fresh scanner state
GeminiRead(buf, chunk, hasReceived) ==
    GeminiScan(buf \o chunk, 1, 1, 0, FALSE, FALSE,
               [events |-> <<>>, frames |-> <<>>, hasReceivedContent |-> hasReceived])

(***************************************************************************)
(* AIProviderManager: which adapter chat and chatStream delegate to        *)
(***************************************************************************)
Providers == {"openrouter", "gemini"}

\* the selection without the fallback to an adapter that is configured
SelectAdapter_NoFallback(provider, cfg) ==
    IF provider = "openrouter" /\ "openrouter" \in cfg THEN "openrouter"
    ELSE IF provider = "gemini" /\ "gemini" \in cfg THEN "gemini"
    ELSE "none"

\* lines 405-422: the adapter AIProviderManager.chat delegates to
ChatAdapter(provider, cfg) ==
    IF provider = "openrouter" /\ "openrouter" \in cfg THEN "openrouter"
    ELSE IF provider = "gemini" /\ "gemini" \in cfg THEN "gemini"
    ELSE IF "openrouter" \in cfg THEN "openrouter"
    ELSE IF "gemini" \in cfg THEN "gemini"
    ELSE "none"

\* lines 431-450: the adapter AIProviderManager.chatStream delegates to
SelectAdapter(provider, cfg) ==
    IF provider = "openrouter" /\ "openrouter" \in cfg THEN "openrouter"
    ELSE IF provider = "gemini" /\ "gemini" \in cfg THEN "gemini"
    ELSE IF "openrouter" \in cfg THEN "openrouter"
    ELSE IF "gemini" \in cfg THEN "gemini"
    ELSE "none"

(***************************************************************************)
(* The world around one request: users, conversations, models, upstreams   *)
(***************************************************************************)
User == "u1"

NoId == ""

ConvIds == {"c1", "c2", "cNew"}

NoConv == [exists |-> FALSE, owner |-> "", title |-> "", updates |-> {}]

\* a message row; req is 1 for the rows this request writes, 0 for older rows
Msg(c, role, content, r) == [conv |-> c, role |-> role, content |-> content, req |-> r]

\* the decimal digits of i (below 100), the content of the i-th older message
Digits(i) ==
    LET d == <<"0", "1", "2", "3", "4", "5", "6", "7", "8", "9">>
    IN  <<d[(i \div 10) + 1], d[(i % 10) + 1]>>

\* the store before the request: c1 belongs to the caller and holds
\* HistoryLen messages, oldest first; c2 belongs to someone else
Db0 ==
    [messages |-> <<Msg("c2", "USER", <<"x">>, 0)>>
                  \o [i \in 1..HistoryLen |->
                         Msg("c1", IF i % 2 = 1 THEN "USER" ELSE "ASSISTANT", Digits(i), 0)],
     usage    |-> <<>>,
     convs    |-> [c \in ConvIds |->
                     IF c = "c1" THEN [exists |-> TRUE, owner |-> "u1",
                                       title |-> "old", updates |-> {}]
                     ELSE IF c = "c2" THEN [exists |-> TRUE, owner |-> "u2",
                                            title |-> "other", updates |-> {}]
                     ELSE NoConv]]

NoTx == [messages |-> <<>>, usage |-> <<>>, touched |-> {}]

NoModel == [id |-> NoId, modelIdentifier |-> "", isActive |-> FALSE, provider |-> ""]

ModelOR == [id |-> "m1", modelIdentifier |-> "claude-sonnet-4", isActive |-> TRUE,
            provider |-> "openrouter"]

ModelGem == [id |-> "m2", modelIdentifier |-> "gemini-1.5-pro", isActive |-> TRUE,
             provider |-> "gemini"]

ModelOff == [id |-> "m3", modelIdentifier |-> "gpt-x", isActive |-> FALSE,
             provider |-> "openrouter"]

\* the Model table (ordered by createdAt) with the user's preferredModelId
ModelTables ==
    { [rows |-> <<ModelOR, ModelGem>>, preferred |-> NoId],
      [rows |-> <<ModelGem>>, preferred |-> "m2"],
      [rows |-> <<ModelOff>>, preferred |-> NoId],
      \* the preferred model was created after the default one
      [rows |-> <<ModelOR, ModelGem>>, preferred |-> "m2"],
      \* an active model was created before the default one
      [rows |-> <<ModelGem, ModelOR>>, preferred |-> NoId] }

\* lines 117-137: findUnique by the requested id, else findFirst over
\* (preferred id OR modelIdentifier 'claude-sonnet-4' OR isActive) by createdAt
RECURSIVE FindFirst(_, _)
FindFirst(rows, preferred) ==
    IF rows = <<>> THEN NoModel
    ELSE IF \/ (Head(rows).id = preferred)
            \/ Head(rows).modelIdentifier = "claude-sonnet-4"
            \/ Head(rows).isActive
         THEN Head(rows)
         ELSE FindFirst(Tail(rows), preferred)

ResolveModel(modelId, table) ==
    LET byId == IF modelId # NoId /\ \E i \in 1..Len(table.rows) : table.rows[i].id = modelId
                THEN table.rows[CHOOSE i \in 1..Len(table.rows) : table.rows[i].id = modelId]
                ELSE NoModel
    IN  IF byId # NoModel THEN byId ELSE FindFirst(table.rows, table.preferred)

\* request bodies
Requests ==
    { [message |-> <<"h", "i">>, conversationId |-> NoId, modelId |-> NoId],
      [message |-> <<"h", "i">>, conversationId |-> "c1", modelId |-> "m2"],
      [message |-> <<"h", "i">>, conversationId |-> "c2", modelId |-> NoId],
      \* a conversation that does not exist
      [message |-> <<"h", "i">>, conversationId |-> "c0", modelId |-> NoId],
      \* a requested model that is not active
      [message |-> <<"h", "i">>, conversationId |-> NoId, modelId |-> "m3"],
      [message |-> <<>>, conversationId |-> NoId, modelId |-> NoId] }

NoReq == [message |-> <<>>, conversationId |-> NoId, modelId |-> NoId]

\* lines 85-96: findFirst({id, userId}) with any conversation of that id
FindConversation_AnyOwner(convs, id, userId) ==
    id \in DOMAIN convs /\ convs[id].exists

\* lines 85-89: findFirst({where: {id: conversationId, userId: user.id}})
FindConversation(convs, id, userId) ==
    id \in DOMAIN convs /\ convs[id].exists /\ convs[id].owner = userId

\* the first n elements of s
Take(s, n) == SubSeq(s, 1, IF Len(s) < n THEN Len(s) ELSE n)

\* lines 90-95: include messages, orderBy createdAt asc, take 20 (the store
\* keeps the messages in the order of their creation)
IncludeMessages(msgs, id) ==
    Take(SelectSeq(msgs, LAMBDA m : m.conv = id), ContextTake)

\* line 157: msg.role.toLowerCase()
ToLowerCase(role) ==
    IF role = "USER" THEN "user"
    ELSE IF role = "ASSISTANT" THEN "assistant"
    ELSE "system"

\* a message as handed to the provider
Prompt(role, content) == [role |-> role, content |-> content]

\* lines 155-162: the loaded messages followed by the new user message
MessagesForAI(loaded, message) ==
    [i \in 1..Len(loaded) |-> Prompt(ToLowerCase(loaded[i].role), loaded[i].content)]
        \o <<Prompt("user", message)>>

\* Array.prototype.join(' ') of a list of texts
RECURSIVE JoinSpace(_)
JoinSpace(ts) ==
    IF ts = <<>> THEN <<>>
    ELSE IF Len(ts) = 1 THEN ts[1]
    ELSE ts[1] \o <<" ">> \o JoinSpace(Tail(ts))

\* Math.ceil(n / 4)
CeilQuarter(n) == (n + 3) \div 4

\* the token counts of streamState as declared (route.ts:26-33)
NoUsage == [inputTokens |-> 0, outputTokens |-> 0, totalTokens |-> 0]

\* route.ts:219-221: the metrics computed at the done event
EstimateUsage(messages, content) ==
    LET inputTokens == CeilQuarter(Len(JoinSpace([i \in 1..Len(messages) |->
                                                    messages[i].content])))
        outputTokens == CeilQuarter(Len(content))
    IN  [inputTokens |-> inputTokens, outputTokens |-> outputTokens,
         totalTokens |-> inputTokens + outputTokens]

\* String(o) of a plain object, what join makes of a message
ObjectToString(o) ==
    <<"[", "o", "b", "j", "e", "c", "t", " ", "O", "b", "j", "e", "c", "t", "]">>

\* src/app/api/chat/route.ts:152-154: the counts of the provider, or the
\* estimate where a count is 0; messages.join(' ') joins the messages
\* themselves, not their contents
ChatUsage(messages, response) ==
    LET inputTokens == IF response.inputTokens # 0 THEN response.inputTokens
                       ELSE CeilQuarter(Len(JoinSpace([i \in 1..Len(messages) |->
                                                          ObjectToString(messages[i])])))
        outputTokens == IF response.outputTokens # 0 THEN response.outputTokens
                        ELSE CeilQuarter(Len(response.content))
    IN  [inputTokens |-> inputTokens, outputTokens |-> outputTokens,
         totalTokens |-> inputTokens + outputTokens]

\* no call on the manager yet
NoMgrCall == [method |-> "none", provider |-> ""]

\* ---- upstream responses ----
\* a Gemini object with the given text and finish mark (<<>>, S, M or O)
GObj(text, fin) ==
    <<"{">> \o (IF text # <<>> THEN <<"{">> \o Quoted(text) \o <<"}">> ELSE <<>>)
            \o fin \o <<"}">>

\* an OpenRouter SSE line with the given payload
ORLine(payload) == DataPrefix \o payload \o <<"\n", "\n">>

ORDelta(text) == <<"{">> \o Quoted(text) \o <<"}">>

\* the usage of an answer that reports no token counts: prompt and
\* completion tokens both absent, read as 0 (ai-providers.ts:59-60, 194-195)
NoCounts == <<0, 0>>

NoUpstream == [fmt |-> "none", kind |-> "none", parts |-> <<>>, pure |-> FALSE, usage |-> NoCounts]

Body(fmt, parts, pure) ==
    [fmt |-> fmt, kind |-> "body", parts |-> parts, pure |-> pure, usage |-> NoCounts]

GeminiUpstreams ==
    { [fmt |-> "gemini", kind |-> "httpError", parts |-> <<>>, pure |-> FALSE, usage |-> NoCounts],
      [fmt |-> "gemini", kind |-> "noBody", parts |-> <<>>, pure |-> FALSE, usage |-> NoCounts],
      \* one complete response
      Body("gemini", <<GObj(<<"H", "i", " ", "t", "h", "e", "r", "e">>, <<"S">>)>>, TRUE),
      \* deltas, the last object carrying text and STOP
      Body("gemini", <<GObj(<<"a">>, <<>>), GObj(<<" ", "b">>, <<"S">>)>>, TRUE),
      \* braces, a quote and a backslash inside strings; MAX_TOKENS
      Body("gemini", <<GObj(<<"a", "{">>, <<>>), GObj(<<"}", "\"", "\\">>, <<"M">>)>>, TRUE),
      \* a finish object without text
      Body("gemini", <<GObj(<<>>, <<"S">>)>>, TRUE),
      \* only whitespace, then the finish object
      Body("gemini", <<GObj(<<" ">>, <<>>), GObj(<<>>, <<"S">>)>>, TRUE),
      \* a complete response with two spaces in a row
      Body("gemini", <<GObj(<<"a", " ", " ", "b">>, <<"S">>)>>, TRUE),
      \* a complete response ending in a space
      Body("gemini", <<GObj(<<"a", " ">>, <<"S">>)>>, TRUE),
      \* the array framing of the API around two objects, no finishReason
      Body("gemini", <<<<"[">>, GObj(<<"a">>, <<>>), <<",", "\n">>,
                       GObj(<<"b">>, <<"O">>), <<"]">>>>, FALSE),
      \* an object that is no JSON, a delta, and a last object with text and STOP
      Body("gemini", <<<<"{", "x", "}">>, GObj(<<"a">>, <<>>), GObj(<<"b">>, <<"S">>)>>,
           FALSE),
      \* an object that is no JSON, then a delta
      Body("gemini", <<<<"{", "x", "}">>, GObj(<<"a">>, <<>>)>>, FALSE) }

OpenRouterUpstreams ==
    { [fmt |-> "openrouter", kind |-> "httpError", parts |-> <<>>, pure |-> FALSE, usage |-> NoCounts],
      [fmt |-> "openrouter", kind |-> "noBody", parts |-> <<>>, pure |-> FALSE, usage |-> NoCounts],
      Body("openrouter", <<ORLine(ORDelta(<<"a">>)), ORLine(ORDelta(<<" ", "b">>)),
                           ORLine(DoneSentinel)>>, TRUE),
      \* no sentinel
      Body("openrouter", <<ORLine(ORDelta(<<"a">>))>>, TRUE),
      \* a line after the sentinel
      Body("openrouter", <<ORLine(ORDelta(<<"a">>)), ORLine(DoneSentinel),
                           ORLine(ORDelta(<<"b">>))>>, FALSE),
      \* the sentinel only
      Body("openrouter", <<ORLine(DoneSentinel)>>, TRUE),
      \* a comment line, a chunk without delta, a whitespace delta, CRLF
      Body("openrouter", <<<<":", "k", "\n">>, ORLine(<<"{", "}">>),
                           DataPrefix \o ORDelta(<<" ">>) \o <<"\r", "\n">>,
                           ORLine(DoneSentinel)>>, FALSE),
      \* a line that is no JSON, then a delta, then a last line without newline
      Body("openrouter", <<ORLine(<<"{", "x">>), ORLine(ORDelta(<<"a">>)),
                           DataPrefix \o ORDelta(<<"b">>)>>, FALSE) }

UpstreamsOf(a) ==
    IF a = "openrouter" THEN OpenRouterUpstreams
    ELSE IF a = "gemini" THEN GeminiUpstreams
    ELSE {NoUpstream}

\* the blocking chat has not been called
NoChat == [status |-> "none", content |-> <<>>, error |-> "",
           inputTokens |-> 0, outputTokens |-> 0]

\* what the provider's HTTP API answers to the blocking call of adapter a
ChatUpstreamsOf(a) ==
    IF a = "none" THEN {NoUpstream}
    ELSE { [fmt |-> a, kind |-> "fetchFailed", parts |-> <<>>, pure |-> FALSE, usage |-> NoCounts],
           [fmt |-> a, kind |-> "httpError", parts |-> <<>>, pure |-> FALSE, usage |-> NoCounts],
           [fmt |-> a, kind |-> "ok", parts |-> <<<<"H", "i">>>>, pure |-> FALSE,
            usage |-> NoCounts],
           \* an answer with the token counts of the provider
           [fmt |-> a, kind |-> "ok", parts |-> <<<<"H", "i">>>>, pure |-> FALSE,
            usage |-> <<7, 5>>],
           \* an answer without content
           [fmt |-> a, kind |-> "ok", parts |-> <<<<>>>>, pure |-> FALSE,
            usage |-> NoCounts] }

\* ai-providers.ts:32-69 and 157-210: the adapter's chat returns the content
\* of the answer or throws
AdapterChat(up) ==
    IF up.kind = "ok"
    THEN [status |-> "returned", content |-> up.parts[1], error |-> "",
          inputTokens |-> up.usage[1], outputTokens |-> up.usage[2]]
    ELSE [status |-> "threw", content |-> <<>>, error |-> "API error",
          inputTokens |-> 0, outputTokens |-> 0]

\* ai-providers.ts:400-423: AIProviderManager.chat
ManagerChatResult(a, up) ==
    IF a = "none"
    THEN [status |-> "threw", content |-> <<>>, error |-> "No AI providers available",
          inputTokens |-> 0, outputTokens |-> 0]
    ELSE AdapterChat(up)

\* ---- errors of the streaming handler ----
\* the TypeError of controller.enqueue on a stream that is not readable
EnqueueError == "Invalid state: Controller is already closed"

\* stream/route.ts:285
CompletionError == "Stream completion failed"

\* stream/route.ts:415
WriteError == "Database write failed after stream completion"

\* ---- the chat component (src/components/chat/chat-sidebar.tsx) ----
\* a line of the response body as the client parses it: the JSON after
\* 'data: ', by its type and the fields the client reads
Fr(type, delta, content, error) ==
    [type |-> type, delta |-> delta, content |-> content, error |-> error]

\* the newline that ends a line
NL == Fr("newline", <<>>, <<>>, "")

\* the line 'data: [DONE]'
SentinelLine == Fr("[DONE]", <<>>, <<>>, "")

\* the bytes of a response made of the given frames: stream/route.ts writes
\* every frame as its line followed by two newlines
ResponseBody(frs) == Flatten([i \in 1..Len(frs) |-> <<frs[i], NL, NL>>])

\* the bodies POST /api/chat/stream writes
ServerBodies ==
    { \* the success path
      ResponseBody(<<Fr("start", <<>>, <<>>, ""),
                     Fr("content", <<"a">>, <<"a">>, ""),
                     Fr("content", <<"b">>, <<"a", "b">>, ""),
                     Fr("complete", <<>>, <<>>, ""),
                     Fr("done", <<>>, <<>>, ""),
                     SentinelLine>>),
      \* the provider fails after content: the error frame of the loop and
      \* the error frame of the catch block
      ResponseBody(<<Fr("start", <<>>, <<>>, ""),
                     Fr("content", <<"a">>, <<"a">>, ""),
                     Fr("error", <<>>, <<>>, "boom"),
                     Fr("error", <<>>, <<>>, "boom")>>),
      \* the write fails after the stream was complete
      ResponseBody(<<Fr("start", <<>>, <<>>, ""),
                     Fr("content", <<"a">>, <<"a">>, ""),
                     Fr("complete", <<>>, <<>>, ""),
                     Fr("error", <<>>, <<>>, WriteError)>>),
      \* the events end without done
      ResponseBody(<<Fr("start", <<>>, <<>>, ""),
                     Fr("error", <<>>, <<>>, CompletionError)>>) }

\* a body, or what arrives of it when the connection ends early
Truncations(body) == { SubSeq(body, 1, n) : n \in 0..Len(body) }

\* the statuses of the JSON answers of the route
ErrorStatuses == {400, 404, 429, 500}

\* the error of a JSON answer (stream/route.ts:11, 65-76, 98-101, 140-143,
\* 313-334)
ErrorOfStatus(status) ==
    IF status = 429 THEN "Rate limit exceeded"
    ELSE IF status = 404 THEN "Conversation not found"
    ELSE IF status = 400 THEN "Message is required"
    ELSE "Internal server error"

\* the component before a submit (chat-sidebar.tsx:266-275)
NoClient ==
    [phase |-> "idle", isLoading |-> FALSE, isStreaming |-> FALSE, content |-> <<>>,
     error |-> "", abortController |-> FALSE, messages |-> <<>>, pushed |-> FALSE,
     body |-> <<>>, buffer |-> <<>>, streamContent |-> <<>>, seen |-> <<>>]

\* chat-sidebar.tsx:405-482: one line of a read. The 'data: ' lines are the
\* frames; the throw of line 478 is caught by the catch of line 480, which
\* only logs
ClientLine(c, line) ==
    IF line = <<>> THEN c
    ELSE LET parsed == line[1]
             c1 == [c EXCEPT !.seen = Append(@, parsed)]
         IN  IF parsed.type = "[DONE]"
             THEN [c1 EXCEPT !.isStreaming = FALSE, !.content = <<>>]
             ELSE IF parsed.type = "content"
             THEN LET sc == IF parsed.delta # <<>> THEN c.streamContent \o parsed.delta
                            ELSE parsed.content
                  IN  [c1 EXCEPT !.streamContent = sc, !.content = sc]
             ELSE IF parsed.type = "done"
             THEN [c1 EXCEPT !.messages = <<"user", "assistant">>,
                             !.pushed = TRUE,   \* opened without a conversation
                             !.isStreaming = FALSE, !.content = <<>>]
             ELSE c1

\* chat-sidebar.tsx:404-483: the lines of one read in order; the sentinel
\* breaks out of the loop over the lines
RECURSIVE ClientLines(_, _)
ClientLines(c, lines) ==
    IF lines = <<>> THEN c
    ELSE IF Head(lines) # <<>> /\ Head(lines)[1].type = "[DONE]"
    THEN ClientLine(c, Head(lines))
    ELSE ClientLines(ClientLine(c, Head(lines)), Tail(lines))

\* chat-sidebar.tsx:400-483: one read
ClientRead(c, chunk) ==
    LET lines == SplitOn(c.buffer \o chunk, NL)
        c1 == [c EXCEPT !.buffer = lines[Len(lines)]]
    IN  ClientLines(c1, SubSeq(lines, 1, Len(lines) - 1))

\* chat-sidebar.tsx:493-506: the catch block for an error that is no abort
ClientCatch(c, message) ==
    [c EXCEPT !.messages = <<>>, !.isStreaming = FALSE, !.content = <<>>,
              !.error = message]

\* chat-sidebar.tsx:508-511
ClientFinally(c) ==
    [c EXCEPT !.isLoading = FALSE, !.abortController = FALSE, !.phase = "settled"]

\* no request in flight
NoRequest ==
    /\ pc = "idle" /\ req = NoReq /\ http = 0
    /\ models = [rows |-> <<>>, preferred |-> NoId]
    /\ configured = {}
    /\ conversation = NoId /\ isNewConversation = FALSE /\ selectedModel = NoModel
    /\ db = Db0 /\ tx = NoTx /\ txStep = 0 /\ txFailed = FALSE /\ titleTask = "none"
    /\ fullContent = <<>> /\ isComplete = FALSE /\ streamError = "" /\ usage = NoUsage
    /\ adapter = "none" /\ upstream = NoUpstream /\ wire = <<>> /\ agen = "notStarted"
    /\ buffer = <<>> /\ hasReceivedContent = FALSE /\ pending = <<>>
    /\ emitted = <<>> /\ gFrames = <<>> /\ readFault = "none" /\ carried = FALSE
    /\ mgrCall = NoMgrCall /\ chatResult = NoChat
    /\ history = <<>> /\ aiMessages = <<>>
    /\ frames = <<>> /\ outState = "none" /\ caught = ""

(***************************************************************************)
(* Rate limiter                                                            *)
(***************************************************************************)
NoRec == [count |-> -1, resetTime |-> -1]

NoCall == [key |-> "none", t |-> -1, prev |-> NoRec, prevHist |-> <<>>,
           result |-> [success |-> FALSE, remaining |-> -1, resetTime |-> -1]]

\* rateLimit with the comparison of line 33 off by one
RateLimit_OffByOne(st, key, limit, windowMs, t) ==
    LET st1 == IF st[key] # NoRec /\ t > st[key].resetTime
               THEN [st EXCEPT ![key] = NoRec]
               ELSE st
        st2 == IF st1[key] = NoRec
               THEN [st1 EXCEPT ![key] = [count |-> 0, resetTime |-> t + windowMs]]
               ELSE st1
        current == st2[key]
    IN  IF current.count > limit
        THEN [store  |-> st2,
              result |-> [success |-> FALSE, remaining |-> 0,
                          resetTime |-> current.resetTime]]
        ELSE [store  |-> [st2 EXCEPT ![key].count = current.count + 1],
              result |-> [success |-> TRUE,
                          remaining |-> limit - (current.count + 1),
                          resetTime |-> current.resetTime]]

\* rateLimit that moves resetTime of an expired record but keeps its count
RateLimit_KeepCount(st, key, limit, windowMs, t) ==
    LET st2 == IF st[key] = NoRec
               THEN [st EXCEPT ![key] = [count |-> 0, resetTime |-> t + windowMs]]
               ELSE IF t > st[key].resetTime
                    THEN [st EXCEPT ![key].resetTime = t + windowMs]
                    ELSE st
        current == st2[key]
    IN  IF current.count >= limit
        THEN [store  |-> st2,
              result |-> [success |-> FALSE, remaining |-> 0,
                          resetTime |-> current.resetTime]]
        ELSE [store  |-> [st2 EXCEPT ![key].count = current.count + 1],
              result |-> [success |-> TRUE,
                          remaining |-> limit - (current.count + 1),
                          resetTime |-> current.resetTime]]

\* rateLimit whose denied call pushes the end of the window forward
RateLimit_ExtendOnDeny(st, key, limit, windowMs, t) ==
    LET st1 == IF st[key] # NoRec /\ t > st[key].resetTime
               THEN [st EXCEPT ![key] = NoRec]
               ELSE st
        st2 == IF st1[key] = NoRec
               THEN [st1 EXCEPT ![key] = [count |-> 0, resetTime |-> t + windowMs]]
               ELSE st1
        current == st2[key]
    IN  IF current.count >= limit
        THEN [store  |-> [st2 EXCEPT ![key].resetTime = t + windowMs],
              result |-> [success |-> FALSE, remaining |-> 0,
                          resetTime |-> current.resetTime]]
        ELSE [store  |-> [st2 EXCEPT ![key].count = current.count + 1],
              result |-> [success |-> TRUE,
                          remaining |-> limit - (current.count + 1),
                          resetTime |-> current.resetTime]]

\* rateLimit(identifier, limit, windowMs) at time t on store st:
\* the store after the call and the value returned
RateLimit(st, key, limit, windowMs, t) ==
    LET st1 == IF st[key] # NoRec /\ t > st[key].resetTime
               THEN [st EXCEPT ![key] = NoRec]
               ELSE st
        st2 == IF st1[key] = NoRec
               THEN [st1 EXCEPT ![key] = [count |-> 0, resetTime |-> t + windowMs]]
               ELSE st1
        current == st2[key]
    IN  IF current.count >= limit
        THEN [store  |-> st2,
              result |-> [success |-> FALSE, remaining |-> 0,
                          resetTime |-> current.resetTime]]
        ELSE [store  |-> [st2 EXCEPT ![key].count = current.count + 1],
              result |-> [success |-> TRUE,
                          remaining |-> limit - (current.count + 1),
                          resetTime |-> current.resetTime]]

InitRL ==
    /\ store = [k \in Keys |-> NoRec]
    /\ now = 0
    /\ rlLast = NoCall
    /\ winEnd = [k \in Keys |-> -1]
    /\ winHist = [k \in Keys |-> <<>>]
    /\ NoRequest
    /\ client = NoClient

\* one call rateLimit(k, LimitN, WindowMs); the call is synchronous, so calls of
\* concurrent requests interleave as whole calls
CallRateLimit(k) ==
    LET r == RateLimit(store, k, LimitN, WindowMs, now)
        fresh == winEnd[k] < 0 \/ now > winEnd[k]
        hist == IF fresh THEN <<>> ELSE winHist[k]
    IN  /\ Len(hist) < MaxCalls
        /\ store' = r.store
        /\ rlLast' = [key |-> k, t |-> now, prev |-> store[k],
                     prevHist |-> winHist[k], result |-> r.result]
        /\ winEnd' = [winEnd EXCEPT ![k] = IF fresh THEN now + WindowMs ELSE @]
        /\ winHist' = [winHist EXCEPT ![k] = Append(hist, r.result.success)]
        /\ now' = now
        /\ UNCHANGED <<reqVars, dbVars, stVars, adVars, outVars, client>>

\* time passes between calls
Tick ==
    /\ now < MaxTime
    /\ now' = now + 1
    /\ UNCHANGED <<store, rlLast, winEnd, winHist>>
    /\ UNCHANGED <<reqVars, dbVars, stVars, adVars, outVars, client>>

NextRL ==
    \/ \E k \in Keys : CallRateLimit(k)
    \/ Tick

SpecRL == InitRL /\ [][NextRL]_vars

(***************************************************************************)
(* POST /api/chat/stream: the steps before the stream                      *)
(***************************************************************************)
\* the request arrives at a process whose limiter either has no record for
\* the caller or has one that earlier requests used up
Init ==
    /\ store \in { [k \in Keys |-> NoRec],
                   [k \in Keys |-> IF k = User
                                   THEN [count |-> LimitN, resetTime |-> WindowMs]
                                   ELSE NoRec] }
    /\ now = 0
    /\ rlLast = NoCall
    /\ winEnd = [k \in Keys |-> -1]
    /\ winHist = [k \in Keys |-> <<>>]
    /\ pc = "start"
    /\ req \in Requests
    /\ http = 0
    /\ models \in ModelTables
    /\ configured \in SUBSET Providers
    /\ conversation = NoId /\ isNewConversation = FALSE /\ selectedModel = NoModel
    /\ db = Db0 /\ tx = NoTx /\ txStep = 0 /\ txFailed = FALSE /\ titleTask = "none"
    /\ fullContent = <<>> /\ isComplete = FALSE /\ streamError = "" /\ usage = NoUsage
    /\ adapter = "none" /\ upstream = NoUpstream /\ wire = <<>> /\ agen = "notStarted"
    /\ buffer = <<>> /\ hasReceivedContent = FALSE /\ pending = <<>>
    /\ emitted = <<>> /\ gFrames = <<>> /\ readFault = "none" /\ carried = FALSE
    /\ mgrCall = NoMgrCall /\ chatResult = NoChat
    /\ history = <<>> /\ aiMessages = <<>>
    /\ frames = <<>> /\ outState = "none" /\ caught = ""
    /\ client = NoClient

\* a JSON response with the given status ends the request
Respond(status) ==
    /\ http' = status
    /\ pc' = "responded"

\* lines 63-77
RateLimitGate ==
    /\ pc = "start"
    /\ LET r == RateLimit(store, User, LimitN, WindowMs, now)
       IN  /\ store' = r.store
           /\ rlLast' = [key |-> User, t |-> now, prev |-> store[User],
                        prevHist |-> winHist[User], result |-> r.result]
           /\ IF r.result.success
              THEN pc' = "validating" /\ http' = http
              ELSE Respond(429)
    /\ UNCHANGED <<now, winEnd, winHist>>
    /\ UNCHANGED <<req, models, configured, conversation, isNewConversation, selectedModel,
                   history, aiMessages>>
    /\ UNCHANGED <<dbVars, stVars, adVars, outVars, client>>

\* lines 79-81 and 326-331: message is z.string().min(1)
Validate ==
    /\ pc = "validating"
    /\ IF req.message = <<>>
       THEN Respond(400)
       ELSE pc' = "resolvingConversation" /\ http' = http
    /\ UNCHANGED <<req, models, configured, conversation, isNewConversation, selectedModel,
                   history, aiMessages>>
    /\ UNCHANGED <<rlVars, dbVars, stVars, adVars, outVars, client>>

\* lines 84-103: findFirst({id, userId})
LoadConversation ==
    /\ pc = "resolvingConversation"
    /\ req.conversationId # NoId
    /\ LET c == req.conversationId
           found == FindConversation(db.convs, c, User)
       IN  IF found
           THEN /\ conversation' = c
                /\ history' = IncludeMessages(db.messages, c)
                /\ pc' = "resolvingModel" /\ http' = http
           ELSE /\ conversation' = conversation
                /\ history' = history
                /\ Respond(404)
    /\ UNCHANGED <<req, models, configured, isNewConversation, selectedModel, aiMessages>>
    /\ UNCHANGED <<rlVars, dbVars, stVars, adVars, outVars, client>>

\* lines 104-115
CreateConversation ==
    /\ pc = "resolvingConversation"
    /\ req.conversationId = NoId
    /\ db' = [db EXCEPT !.convs["cNew"] =
                 [exists |-> TRUE, owner |-> User, title |-> "New Conversation",
                  updates |-> {}]]
    /\ conversation' = "cNew"
    /\ history' = <<>>
    /\ isNewConversation' = TRUE
    /\ pc' = "resolvingModel"
    /\ UNCHANGED <<req, http, models, configured, selectedModel, aiMessages>>
    /\ UNCHANGED <<tx, txStep, txFailed, titleTask>>
    /\ UNCHANGED <<rlVars, stVars, adVars, outVars, client>>

\* lines 117-144
SelectModel ==
    /\ pc = "resolvingModel"
    /\ LET m == ResolveModel(req.modelId, models)
       IN  /\ selectedModel' = m
           /\ IF m = NoModel
              THEN Respond(500)
              ELSE pc' = "savingUserMessage" /\ http' = http
    /\ UNCHANGED <<req, models, configured, conversation, isNewConversation,
                   history, aiMessages>>
    /\ UNCHANGED <<rlVars, dbVars, stVars, adVars, outVars, client>>

\* lines 146-186 and 311: the user message is created, the stream is built
\* (start runs up to its first await: the start frame is enqueued, the
\* generator is created) and the response is returned. The provider that is
\* called answers with one of the upstream behaviours.
OpenStream ==
    /\ pc = "savingUserMessage"
    /\ db' = [db EXCEPT !.messages = Append(@, Msg(conversation, "USER", req.message, 1))]
    /\ frames' = <<"start">>
    /\ outState' = "readable"
    /\ caught' = caught
    /\ http' = 200
    /\ pc' = "streaming"
    /\ aiMessages' = MessagesForAI(history, req.message)
    /\ mgrCall' = [method |-> "chatStream", provider |-> selectedModel.provider]
    /\ adapter' = SelectAdapter(selectedModel.provider, configured)
    /\ upstream' \in UpstreamsOf(adapter')
    /\ wire' = Flatten(upstream'.parts)
    /\ UNCHANGED <<req, models, configured, conversation, isNewConversation, selectedModel,
                   history, chatResult>>
    /\ UNCHANGED <<tx, txStep, txFailed, titleTask>>
    /\ UNCHANGED <<agen, buffer, hasReceivedContent, pending, emitted, gFrames, readFault, carried>>
    /\ UNCHANGED <<rlVars, stVars, client>>

(***************************************************************************)
(* The generator behind aiManager.chatStream. It runs while the for-await  *)
(* loop waits for the next event.                                          *)
(***************************************************************************)
Pulling == pc = "streaming" /\ pending = <<>>

\* the generator yields evs; it has returned if ret
Produce(evs, ret) ==
    /\ pending' = evs
    /\ emitted' = emitted \o evs
    /\ agen' = IF ret THEN "returned" ELSE "reading"

\* the failure leaves the generator as an exception
Caught_Propagates(msg) ==
    /\ pending' = pending
    /\ emitted' = emitted
    /\ agen' = "threw"

\* lines 139-145, 377-383 and 453-459: a failure inside chatStream is caught
\* and yielded as an error event, after which the generator returns
Caught(msg) == Produce(<<ErrorEv(msg)>>, TRUE)

\* src/lib/ai-providers.ts:452-459
ManagerNoProvider ==
    /\ Pulling /\ agen = "notStarted" /\ adapter = "none"
    /\ Caught("No AI providers available")
    /\ UNCHANGED <<mgrCall, chatResult, adapter, upstream, wire, buffer, hasReceivedContent, gFrames, readFault, carried>>
    /\ UNCHANGED <<rlVars, reqVars, dbVars, stVars, outVars, client>>

\* lines 88-91 and 241-244: !response.ok
AdapterHttpError ==
    /\ Pulling /\ agen = "notStarted" /\ upstream.kind = "httpError"
    /\ Caught("API error")
    /\ UNCHANGED <<mgrCall, chatResult, adapter, upstream, wire, buffer, hasReceivedContent, gFrames, readFault, carried>>
    /\ UNCHANGED <<rlVars, reqVars, dbVars, stVars, outVars, client>>

\* lines 93-96 and 246-249: no reader
AdapterNoBody ==
    /\ Pulling /\ agen = "notStarted" /\ upstream.kind = "noBody"
    /\ Caught("No response body available for streaming")
    /\ UNCHANGED <<mgrCall, chatResult, adapter, upstream, wire, buffer, hasReceivedContent, gFrames, readFault, carried>>
    /\ UNCHANGED <<rlVars, reqVars, dbVars, stVars, outVars, client>>

\* lines 98-99 and 251-254: the read loop is entered
AdapterOpen ==
    /\ Pulling /\ agen = "notStarted" /\ upstream.kind = "body"
    /\ agen' = "reading"
    /\ buffer' = <<>>
    /\ hasReceivedContent' = FALSE
    /\ UNCHANGED <<mgrCall, chatResult, adapter, upstream, wire, pending, emitted, gFrames, readFault, carried>>
    /\ UNCHANGED <<rlVars, reqVars, dbVars, stVars, outVars, client>>

\* lines 103-132: a read delivers the next k characters
OpenRouterReadChunk(k) ==
    /\ Pulling /\ agen = "reading" /\ adapter = "openrouter"
    /\ k \in 1..Len(wire)
    /\ LET r == OpenRouterRead(buffer, SubSeq(wire, 1, k))
       IN  /\ buffer' = r.buffer
           /\ Produce(r.events, r.returned)
           /\ carried' = (carried \/ (~r.returned /\ r.buffer # <<>>))
    /\ wire' = SubSeq(wire, k + 1, Len(wire))
    /\ UNCHANGED <<mgrCall, chatResult, adapter, upstream, hasReceivedContent, gFrames, readFault>>
    /\ UNCHANGED <<rlVars, reqVars, dbVars, stVars, outVars, client>>

\* lines 258-364
GeminiReadChunk(k) ==
    /\ Pulling /\ agen = "reading" /\ adapter = "gemini"
    /\ k \in 1..Len(wire)
    /\ LET r == GeminiRead(buffer, SubSeq(wire, 1, k), hasReceivedContent)
       IN  /\ buffer' = r.buffer
           /\ hasReceivedContent' = r.hasReceivedContent
           /\ gFrames' = gFrames \o r.frames
           /\ Produce(r.events, r.returned)
           /\ carried' = (carried \/ (~r.returned /\ r.buffer # <<>>))
    /\ wire' = SubSeq(wire, k + 1, Len(wire))
    /\ UNCHANGED <<mgrCall, chatResult, adapter, upstream, readFault>>
    /\ UNCHANGED <<rlVars, reqVars, dbVars, stVars, outVars, client>>

\* lines 104 and 138: the body ends, at its end or before it
OpenRouterEnd ==
    /\ Pulling /\ agen = "reading" /\ adapter = "openrouter"
    /\ Produce(<<DoneEv>>, TRUE)
    /\ readFault' = IF wire # <<>> THEN "truncated" ELSE readFault
    /\ UNCHANGED <<mgrCall, chatResult, adapter, upstream, wire, buffer, hasReceivedContent, gFrames, carried>>
    /\ UNCHANGED <<rlVars, reqVars, dbVars, stVars, outVars, client>>

\* lines 259 and 370-383
GeminiEnd ==
    /\ Pulling /\ agen = "reading" /\ adapter = "gemini"
    /\ IF hasReceivedContent
       THEN Produce(<<DoneEv>>, TRUE)
       ELSE Caught("No content received from Gemini stream")
    /\ readFault' = IF wire # <<>> THEN "truncated" ELSE readFault
    /\ UNCHANGED <<mgrCall, chatResult, adapter, upstream, wire, buffer, hasReceivedContent, gFrames, carried>>
    /\ UNCHANGED <<rlVars, reqVars, dbVars, stVars, outVars, client>>

\* lines 139-145 and 377-383: reader.read() throws
AdapterReadFail ==
    /\ Pulling /\ agen = "reading"
    /\ Caught("read failed")
    /\ readFault' = "failed"
    /\ UNCHANGED <<mgrCall, chatResult, adapter, upstream, wire, buffer, hasReceivedContent, gFrames, carried>>
    /\ UNCHANGED <<rlVars, reqVars, dbVars, stVars, outVars, client>>

(***************************************************************************)
(* The relay loop of the stream's start callback (route.ts:190-303)        *)
(***************************************************************************)
\* an enqueue that never throws
Writable_Always == TRUE

\* controller.enqueue throws unless the stream is readable;
\* controller.desiredSize is null when the stream is errored
Writable == outState = "readable"

\* the verification without the trim of the content
StreamVerified_NoTrim(complete, content) == complete /\ content # <<>>

\* the verification without the completion flag
StreamVerified_NoFlag(complete, content) == Trim(content) # <<>>

\* line 257: streamState.isComplete && streamState.fullContent.trim()
StreamVerified(complete, content) == complete /\ Trim(content) # <<>>

\* the catch block without controller.close()
CatchBlock_NoClose(fr, error) ==
    /\ caught' = error
    /\ frames' = IF Writable THEN Append(fr, "error") ELSE fr
    /\ outState' = outState
    /\ pc' = "finished"

\* lines 293-303: the catch block catches error after fr was enqueued; its
\* own enqueue throws when the stream is not readable, and then nothing is
\* closed
CatchBlock(fr, error) ==
    /\ caught' = error
    /\ frames' = IF Writable THEN Append(fr, "error") ELSE fr
    /\ outState' = IF Writable THEN "closed" ELSE outState
    /\ pc' = "finished"

\* lines 256-288 after fr was enqueued: persist or throw
VerifyAndPersist(fr, complete, content) ==
    IF StreamVerified(complete, content)
    THEN /\ frames' = fr
         /\ outState' = outState
         /\ caught' = caught
         /\ pc' = "persisting"
    ELSE CatchBlock(fr, CompletionError)

Chunk == Head(pending)

\* lines 193-197: the stream is errored, the loop breaks
RelayDisconnected ==
    /\ pc = "streaming" /\ pending # <<>>
    /\ outState = "errored"
    /\ pending' = Tail(pending)
    /\ VerifyAndPersist(frames, isComplete, fullContent)
    /\ UNCHANGED <<mgrCall, chatResult, adapter, upstream, wire, agen, buffer, hasReceivedContent, emitted,
                   gFrames, readFault, carried>>
    /\ UNCHANGED <<req, http, models, configured, conversation, isNewConversation,
                   selectedModel,
                   history, aiMessages>>
    /\ UNCHANGED <<rlVars, dbVars, stVars, client>>

\* lines 199-213
RelayContent ==
    /\ pc = "streaming" /\ pending # <<>>
    /\ outState # "errored"
    /\ Chunk.type = "content" /\ Chunk.delta # <<>>
    /\ pending' = Tail(pending)
    /\ fullContent' = fullContent \o Chunk.delta
    /\ IF Writable
       THEN /\ frames' = Append(frames, "content")
            /\ UNCHANGED <<outState, caught, pc>>
       ELSE CatchBlock(frames, EnqueueError)
    /\ UNCHANGED <<isComplete, streamError, usage>>
    /\ UNCHANGED <<mgrCall, chatResult, adapter, upstream, wire, agen, buffer, hasReceivedContent, emitted,
                   gFrames, readFault, carried>>
    /\ UNCHANGED <<req, http, models, configured, conversation, isNewConversation,
                   selectedModel,
                   history, aiMessages>>
    /\ UNCHANGED <<rlVars, dbVars, client>>

\* lines 215-240 and 256-288
RelayDone ==
    /\ pc = "streaming" /\ pending # <<>>
    /\ outState # "errored"
    /\ Chunk.type = "done"
    /\ pending' = Tail(pending)
    /\ isComplete' = TRUE
    /\ usage' = EstimateUsage(aiMessages, fullContent)
    /\ IF Writable
       THEN VerifyAndPersist(Append(frames, "complete"), TRUE, fullContent)
       ELSE CatchBlock(frames, EnqueueError)
    /\ UNCHANGED <<fullContent, streamError>>
    /\ UNCHANGED <<mgrCall, chatResult, adapter, upstream, wire, agen, buffer, hasReceivedContent, emitted,
                   gFrames, readFault, carried>>
    /\ UNCHANGED <<req, http, models, configured, conversation, isNewConversation,
                   selectedModel,
                   history, aiMessages>>
    /\ UNCHANGED <<rlVars, dbVars, client>>

\* lines 242-253: the error frame is enqueued and the error thrown into the
\* catch block
RelayError ==
    /\ pc = "streaming" /\ pending # <<>>
    /\ outState # "errored"
    /\ Chunk.type = "error"
    /\ pending' = Tail(pending)
    /\ streamError' = IF Chunk.error # "" THEN Chunk.error ELSE "Unknown streaming error"
    /\ CatchBlock(IF Writable THEN Append(frames, "error") ELSE frames,
                  IF Writable THEN streamError' ELSE EnqueueError)
    /\ UNCHANGED <<fullContent, isComplete, usage>>
    /\ UNCHANGED <<mgrCall, chatResult, adapter, upstream, wire, agen, buffer, hasReceivedContent, emitted,
                   gFrames, readFault, carried>>
    /\ UNCHANGED <<req, http, models, configured, conversation, isNewConversation,
                   selectedModel,
                   history, aiMessages>>
    /\ UNCHANGED <<rlVars, dbVars, client>>

\* no branch of lines 199-253 matches: a content event without delta, a start
\* event
RelayIgnored ==
    /\ pc = "streaming" /\ pending # <<>>
    /\ outState # "errored"
    /\ ~(Chunk.type = "content" /\ Chunk.delta # <<>>)
    /\ Chunk.type \notin {"done", "error"}
    /\ pending' = Tail(pending)
    /\ UNCHANGED <<mgrCall, chatResult, adapter, upstream, wire, agen, buffer, hasReceivedContent, emitted,
                   gFrames, readFault, carried>>
    /\ UNCHANGED <<rlVars, reqVars, dbVars, stVars, outVars, client>>

\* the generator ends without a terminal event: the loop ends, line 257 follows
RelayExhausted ==
    /\ pc = "streaming" /\ pending = <<>> /\ agen = "returned"
    /\ VerifyAndPersist(frames, isComplete, fullContent)
    /\ UNCHANGED <<req, http, models, configured, conversation, isNewConversation,
                   selectedModel,
                   history, aiMessages>>
    /\ UNCHANGED <<rlVars, dbVars, stVars, adVars, client>>

\* the client goes away while the response is streamed: the runtime cancels
\* the stream (desiredSize 0) or errors it (desiredSize null)
ClientDisconnect ==
    /\ pc \in {"streaming", "persisting"}
    /\ outState = "readable"
    /\ outState' \in {"cancelled", "errored"}
    /\ UNCHANGED <<frames, caught>>
    /\ UNCHANGED <<rlVars, reqVars, dbVars, stVars, adVars, client>>

(***************************************************************************)
(* writeCompletedStreamToDatabase (route.ts:340-417). Writes made through  *)
(* the transaction client tx are staged and reach the store on commit; a   *)
(* failure of any write or of the commit rolls all of them back.           *)
(***************************************************************************)
\* the write made on the global client instead of the transaction client
PrismaMessageCreate(d, t, m) ==
    [db |-> [d EXCEPT !.messages = Append(@, m)], tx |-> t]

\* lines 354-372: tx.message.create
TxMessageCreate(d, t, m) ==
    [db |-> d, tx |-> [t EXCEPT !.messages = Append(@, m)]]

\* lines 375-385: tx.apiUsage.create
TxUsageCreate(d, t, u) ==
    [db |-> d, tx |-> [t EXCEPT !.usage = Append(@, u)]]

\* lines 388-391: tx.conversation.update
TxConversationUpdate(d, t, c) ==
    [db |-> d, tx |-> [t EXCEPT !.touched = @ \cup {c}]]

\* the commit of prisma.$transaction
TxCommitted(d, t) ==
    [messages |-> d.messages \o t.messages,
     usage    |-> d.usage \o t.usage,
     convs    |-> [c \in ConvIds |->
                     IF c \in t.touched
                     THEN [d.convs[c] EXCEPT !.updates = @ \cup {"tx"}]
                     ELSE d.convs[c]]]

\* one write of the transaction callback
TxWrite ==
    /\ pc = "persisting" /\ txStep < 3
    /\ LET r == IF txStep = 0
                THEN TxMessageCreate(db, tx, Msg(conversation, "ASSISTANT", fullContent, 1))
                ELSE IF txStep = 1
                THEN TxUsageCreate(db, tx, [user |-> User, model |-> selectedModel.id,
                                            endpoint |-> "/api/chat/stream", req |-> 1])
                ELSE TxConversationUpdate(db, tx, conversation)
       IN  /\ db' = r.db
           /\ tx' = r.tx
    /\ txStep' = txStep + 1
    /\ UNCHANGED <<txFailed, titleTask>>
    /\ UNCHANGED <<rlVars, reqVars, stVars, adVars, outVars, client>>

\* the handler swallows the failure of the write and goes on to the done frame
WriteFailed_Swallowed(fr) ==
    /\ caught' = caught
    /\ frames' = IF Writable THEN fr \o <<"done", "[DONE]">> ELSE fr
    /\ outState' = IF Writable THEN "closed" ELSE outState
    /\ pc' = "finished"

\* lines 413-416 and 293-303: the failure is thrown on as 'Database write
\* failed after stream completion' and lands in the catch block of start
WriteFailed(fr) == CatchBlock(fr, WriteError)

\* a write or the commit fails: everything staged is rolled back
TxFail ==
    /\ pc = "persisting"
    /\ tx' = NoTx
    /\ txFailed' = TRUE
    /\ WriteFailed(frames)
    /\ UNCHANGED <<db, txStep, titleTask>>
    /\ UNCHANGED <<req, http, models, configured, conversation, isNewConversation,
                   selectedModel,
                   history, aiMessages>>
    /\ UNCHANGED <<rlVars, stVars, adVars, client>>

\* the handler waits for the title of a new conversation before it goes on
StreamFinish_AwaitsTitle(fr) ==
    IF isNewConversation
    THEN /\ frames' = fr
         /\ outState' = outState
         /\ caught' = caught
         /\ pc' = "awaitingTitle"
    ELSE IF Writable
    THEN /\ frames' = fr \o <<"done", "[DONE]">>
         /\ outState' = "closed"
         /\ caught' = caught
         /\ pc' = "finished"
    ELSE CatchBlock(fr, EnqueueError)

\* lines 271-291 after the write returned: the done frame, the sentinel, the
\* close (the enqueue throws into the catch block when the stream is not
\* readable)
StreamFinish(fr) ==
    IF Writable
    THEN /\ frames' = fr \o <<"done", "[DONE]">>
         /\ outState' = "closed"
         /\ caught' = caught
         /\ pc' = "finished"
    ELSE CatchBlock(fr, EnqueueError)

\* the commit succeeds; lines 400-411 start the title task of a new
\* conversation without awaiting it; lines 271-291 write the done frame and
\* the sentinel and close the stream (the enqueue throws into the catch block
\* when the stream is not readable)
TxCommit ==
    /\ pc = "persisting" /\ txStep = 3
    /\ db' = TxCommitted(db, tx)
    /\ tx' = NoTx
    /\ titleTask' = IF isNewConversation THEN "running" ELSE titleTask
    /\ StreamFinish(frames)
    /\ UNCHANGED <<txStep, txFailed>>
    /\ UNCHANGED <<req, http, models, configured, conversation, isNewConversation,
                   selectedModel,
                   history, aiMessages>>
    /\ UNCHANGED <<rlVars, stVars, adVars, client>>

\* generateConversationTitle, lines 439-452: the title call answers and the
\* title is stored
TitleStored ==
    /\ titleTask = "running"
    /\ titleTask' = "done"
    /\ db' = [db EXCEPT !.convs[conversation] =
                 [@ EXCEPT !.title = "generated", !.updates = @ \cup {"title"}]]
    /\ UNCHANGED <<tx, txStep, txFailed>>
    /\ UNCHANGED <<rlVars, reqVars, stVars, adVars, outVars, client>>

\* lines 453-455: the title call or the update fails; the error is logged
TitleFailed ==
    /\ titleTask = "running"
    /\ titleTask' = "failed"
    /\ UNCHANGED <<db, tx, txStep, txFailed>>
    /\ UNCHANGED <<rlVars, reqVars, stVars, adVars, outVars, client>>

Next ==
    \/ RateLimitGate
    \/ Validate
    \/ LoadConversation
    \/ CreateConversation
    \/ SelectModel
    \/ OpenStream
    \/ ManagerNoProvider
    \/ AdapterHttpError
    \/ AdapterNoBody
    \/ AdapterOpen
    \/ \E k \in 1..Len(wire) : OpenRouterReadChunk(k)
    \/ \E k \in 1..Len(wire) : GeminiReadChunk(k)
    \/ OpenRouterEnd
    \/ GeminiEnd
    \/ AdapterReadFail
    \/ RelayDisconnected
    \/ RelayContent
    \/ RelayDone
    \/ RelayError
    \/ RelayIgnored
    \/ ClientDisconnect
    \/ TxWrite
    \/ TxFail
    \/ TxCommit
    \/ TitleStored
    \/ TitleFailed

Spec == Init /\ [][Next]_vars

(***************************************************************************)
(* POST /api/chat (src/app/api/chat/route.ts): the answer is awaited whole *)
(* and the three writes are made one after the other, without transaction. *)
(***************************************************************************)
InitChat ==
    /\ store \in { [k \in Keys |-> NoRec],
                   [k \in Keys |-> IF k = User
                                   THEN [count |-> LimitN, resetTime |-> WindowMs]
                                   ELSE NoRec] }
    /\ now = 0
    /\ rlLast = NoCall
    /\ winEnd = [k \in Keys |-> -1]
    /\ winHist = [k \in Keys |-> <<>>]
    /\ pc = "chatStart"
    /\ req \in Requests
    /\ http = 0
    /\ models \in ModelTables
    /\ configured \in SUBSET Providers
    /\ conversation = NoId /\ isNewConversation = FALSE /\ selectedModel = NoModel
    /\ db = Db0 /\ tx = NoTx /\ txStep = 0 /\ txFailed = FALSE /\ titleTask = "none"
    /\ fullContent = <<>> /\ isComplete = FALSE /\ streamError = "" /\ usage = NoUsage
    /\ adapter = "none" /\ upstream = NoUpstream /\ wire = <<>> /\ agen = "notStarted"
    /\ buffer = <<>> /\ hasReceivedContent = FALSE /\ pending = <<>>
    /\ emitted = <<>> /\ gFrames = <<>> /\ readFault = "none" /\ carried = FALSE
    /\ mgrCall = NoMgrCall /\ chatResult = NoChat
    /\ history = <<>> /\ aiMessages = <<>>
    /\ frames = <<>> /\ outState = "none" /\ caught = ""
    /\ client = NoClient

\* route.ts:38-52
ChatRateLimitGate ==
    /\ pc = "chatStart"
    /\ LET r == RateLimit(store, User, LimitN, WindowMs, now)
       IN  /\ store' = r.store
           /\ rlLast' = [key |-> User, t |-> now, prev |-> store[User],
                        prevHist |-> winHist[User], result |-> r.result]
           /\ IF r.result.success
              THEN pc' = "chatValidating" /\ http' = http
              ELSE Respond(429)
    /\ UNCHANGED <<now, winEnd, winHist>>
    /\ UNCHANGED <<req, models, configured, conversation, isNewConversation, selectedModel,
                   history, aiMessages>>
    /\ UNCHANGED <<dbVars, stVars, adVars, outVars, client>>

\* route.ts:54-55 and 213-221: the ZodError of an empty message gives 400
ChatValidate ==
    /\ pc = "chatValidating"
    /\ IF req.message = <<>>
       THEN Respond(400)
       ELSE pc' = "chatConversation" /\ http' = http
    /\ UNCHANGED <<req, models, configured, conversation, isNewConversation, selectedModel,
                   history, aiMessages>>
    /\ UNCHANGED <<rlVars, dbVars, stVars, adVars, outVars, client>>

\* route.ts:59-77
ChatLoadConversation ==
    /\ pc = "chatConversation"
    /\ req.conversationId # NoId
    /\ LET c == req.conversationId
           found == FindConversation(db.convs, c, User)
       IN  IF found
           THEN /\ conversation' = c
                /\ history' = IncludeMessages(db.messages, c)
                /\ pc' = "chatUserMessage" /\ http' = http
           ELSE /\ conversation' = conversation
                /\ history' = history
                /\ Respond(404)
    /\ UNCHANGED <<req, models, configured, isNewConversation, selectedModel, aiMessages>>
    /\ UNCHANGED <<rlVars, dbVars, stVars, adVars, outVars, client>>

\* route.ts:83: message.slice(0, 50) + (message.length > 50 ? '...' : '')
TitleOf(message) ==
    IF Len(message) > 50 THEN SubSeq(message, 1, 50) \o <<".", ".", ".">> ELSE message

\* route.ts:78-89
ChatCreateConversation ==
    /\ pc = "chatConversation"
    /\ req.conversationId = NoId
    /\ db' = [db EXCEPT !.convs["cNew"] =
                 [exists |-> TRUE, owner |-> User, title |-> TitleOf(req.message),
                  updates |-> {}]]
    /\ conversation' = "cNew"
    /\ history' = <<>>
    /\ pc' = "chatUserMessage"
    /\ UNCHANGED <<req, http, models, configured, isNewConversation, selectedModel,
                   aiMessages>>
    /\ UNCHANGED <<tx, txStep, txFailed, titleTask>>
    /\ UNCHANGED <<rlVars, stVars, adVars, outVars, client>>

\* route.ts:92-98
ChatUserMessage ==
    /\ pc = "chatUserMessage"
    /\ db' = [db EXCEPT !.messages = Append(@, Msg(conversation, "USER", req.message, 1))]
    /\ pc' = "chatModel"
    /\ UNCHANGED <<req, http, models, configured, conversation, isNewConversation,
                   selectedModel, history, aiMessages>>
    /\ UNCHANGED <<tx, txStep, txFailed, titleTask>>
    /\ UNCHANGED <<rlVars, stVars, adVars, outVars, client>>

\* route.ts:100-129
ChatSelectModel ==
    /\ pc = "chatModel"
    /\ LET m == ResolveModel(req.modelId, models)
       IN  /\ selectedModel' = m
           /\ IF m = NoModel
              THEN Respond(500)
              ELSE pc' = "chatCalling" /\ http' = http
    /\ UNCHANGED <<req, models, configured, conversation, isNewConversation,
                   history, aiMessages>>
    /\ UNCHANGED <<rlVars, dbVars, stVars, adVars, outVars, client>>

\* route.ts:131-158 and 213-227: the messages for the provider, the awaited
\* answer and the token counts; an answer that throws gives 500
ChatCall ==
    /\ pc = "chatCalling"
    /\ aiMessages' = MessagesForAI(history, req.message)
    /\ mgrCall' = [method |-> "chat", provider |-> selectedModel.provider]
    /\ adapter' = ChatAdapter(selectedModel.provider, configured)
    /\ upstream' \in ChatUpstreamsOf(adapter')
    /\ chatResult' = ManagerChatResult(adapter', upstream')
    /\ IF chatResult'.status = "returned"
       THEN /\ usage' = ChatUsage(aiMessages', chatResult')
            /\ pc' = "chatSaving" /\ http' = http
       ELSE /\ usage' = usage
            /\ Respond(500)
    /\ UNCHANGED <<req, models, configured, conversation, isNewConversation, selectedModel,
                   history>>
    /\ UNCHANGED <<wire, agen, buffer, hasReceivedContent, pending, emitted, gFrames,
                   readFault, carried>>
    /\ UNCHANGED <<fullContent, isComplete, streamError>>
    /\ UNCHANGED <<rlVars, dbVars, outVars, client>>

\* route.ts:161-179
ChatSaveMessage ==
    /\ pc = "chatSaving"
    /\ db' = [db EXCEPT !.messages =
                 Append(@, Msg(conversation, "ASSISTANT", chatResult.content, 1))]
    /\ pc' = "chatTracking"
    /\ UNCHANGED <<req, http, models, configured, conversation, isNewConversation,
                   selectedModel, history, aiMessages>>
    /\ UNCHANGED <<tx, txStep, txFailed, titleTask>>
    /\ UNCHANGED <<rlVars, stVars, adVars, outVars, client>>

\* route.ts:182-192
ChatTrackUsage ==
    /\ pc = "chatTracking"
    /\ db' = [db EXCEPT !.usage =
                 Append(@, [user |-> User, model |-> selectedModel.id,
                            endpoint |-> "/api/chat", req |-> 1])]
    /\ pc' = "chatTouching"
    /\ UNCHANGED <<req, http, models, configured, conversation, isNewConversation,
                   selectedModel, history, aiMessages>>
    /\ UNCHANGED <<tx, txStep, txFailed, titleTask>>
    /\ UNCHANGED <<rlVars, stVars, adVars, outVars, client>>

\* route.ts:195-211: the conversation is touched and the answer returned
\* with the usage
ChatRespond ==
    /\ pc = "chatTouching"
    /\ db' = [db EXCEPT !.convs[conversation].updates = @ \cup {"chat"}]
    /\ Respond(200)
    /\ UNCHANGED <<req, models, configured, conversation, isNewConversation,
                   selectedModel, history, aiMessages>>
    /\ UNCHANGED <<tx, txStep, txFailed, titleTask>>
    /\ UNCHANGED <<rlVars, stVars, adVars, outVars, client>>

\* route.ts:213-227: a database call throws and the catch answers 500
ChatDbFail ==
    /\ pc \in {"chatConversation", "chatUserMessage", "chatModel", "chatSaving",
               "chatTracking", "chatTouching"}
    /\ Respond(500)
    /\ UNCHANGED <<req, models, configured, conversation, isNewConversation,
                   selectedModel, history, aiMessages>>
    /\ UNCHANGED <<rlVars, dbVars, stVars, adVars, outVars, client>>

NextChat ==
    \/ ChatRateLimitGate
    \/ ChatValidate
    \/ ChatLoadConversation
    \/ ChatCreateConversation
    \/ ChatUserMessage
    \/ ChatSelectModel
    \/ ChatCall
    \/ ChatSaveMessage
    \/ ChatTrackUsage
    \/ ChatRespond
    \/ ChatDbFail

SpecChat == InitChat /\ [][NextChat]_vars

(***************************************************************************)
(* The chat component submits a message and reads the streamed answer      *)
(* (chat-sidebar.tsx:339-512). The server is what its response shows: a    *)
(* JSON error, a body of frames, a body that ends early, a failing read.   *)
(***************************************************************************)
InitClient ==
    /\ store = [k \in Keys |-> NoRec]
    /\ now = 0
    /\ rlLast = NoCall
    /\ winEnd = [k \in Keys |-> -1]
    /\ winHist = [k \in Keys |-> <<>>]
    /\ NoRequest
    /\ client = NoClient

ServerUntouched == UNCHANGED <<rlVars, reqVars, dbVars, stVars, adVars, outVars>>

\* lines 339-364: the submit of a message that is not empty while no other
\* is loading
HandleSubmit ==
    /\ client.phase = "idle" /\ ~client.isLoading
    /\ client' = [client EXCEPT !.phase = "fetching", !.isLoading = TRUE,
                                !.isStreaming = TRUE, !.content = <<>>,
                                !.abortController = TRUE, !.messages = <<"temp">>]
    /\ ServerUntouched

\* lines 366-390: the response is there and is ok; its body is one the
\* server writes, whole or cut
FetchResponds ==
    /\ client.phase = "fetching"
    /\ \E b \in ServerBodies : \E t \in Truncations(b) :
          client' = [client EXCEPT !.phase = "reading", !.body = t]
    /\ ServerUntouched

\* lines 379-382 and 486-511: the response is not ok, its error is thrown
FetchNotOk ==
    /\ client.phase = "fetching"
    /\ \E status \in ErrorStatuses :
          client' = ClientFinally(ClientCatch(client, ErrorOfStatus(status)))
    /\ ServerUntouched

\* lines 396-483: a read that gives the next k parts of the body
ReaderRead(k) ==
    /\ client.phase = "reading" /\ client.body # <<>>
    /\ client' = ClientRead([client EXCEPT !.body = SubSeq(@, k + 1, Len(@))],
                            SubSeq(client.body, 1, k))
    /\ ServerUntouched

\* lines 397-398 and 508-511: the body has ended, the loop is left and the
\* finally block runs
ReaderDone ==
    /\ client.phase = "reading" /\ client.body = <<>>
    /\ client' = ClientFinally(client)
    /\ ServerUntouched

\* lines 397 and 486-511: the read fails, for a connection that broke
ReaderFails ==
    /\ client.phase = "reading"
    /\ client' = ClientFinally(ClientCatch(client, "network error"))
    /\ ServerUntouched

\* lines 325-337: the user stops the generation
StopGeneration ==
    /\ client.phase \in {"fetching", "reading"} /\ client.abortController
    /\ client' = [client EXCEPT !.phase = "aborted", !.abortController = FALSE,
                                !.isLoading = FALSE, !.isStreaming = FALSE,
                                !.content = <<>>]
    /\ ServerUntouched

\* lines 486-492 and 508-511: the pending fetch or read fails with an
\* AbortError
AbortCaught ==
    /\ client.phase = "aborted"
    /\ client' = ClientFinally([client EXCEPT !.messages = <<>>,
                                              !.isStreaming = FALSE, !.content = <<>>])
    /\ ServerUntouched

NextClient ==
    \/ HandleSubmit
    \/ FetchResponds
    \/ FetchNotOk
    \/ \E k \in 1..Len(client.body) : ReaderRead(k)
    \/ ReaderDone
    \/ ReaderFails
    \/ StopGeneration
    \/ AbortCaught

SpecClient == InitClient /\ [][NextClient]_vars

(***************************************************************************)
(* The relay loop on any stream of StreamChunk values: the generator is    *)
(* replaced by one that yields a given sequence of events and ends.        *)
(***************************************************************************)
StubEvents ==
    { ContentEv(<<"a">>), ContentEv(<<" ", "b">>), ContentEv(<<" ">>),
      CumulativeEv(<<"a", " ", "b", "!">>), DoneEv, ErrorEv("boom") }

RECURSIVE EventSeqs(_)
EventSeqs(n) ==
    IF n = 0 THEN {<<>>}
    ELSE LET shorter == EventSeqs(n - 1)
         IN  shorter \cup {Append(q, e) : q \in {x \in shorter : Len(x) = n - 1},
                                          e \in StubEvents}

\* the request has passed lines 25-186 with a new conversation
InitRelay ==
    /\ store = [k \in Keys |-> IF k = User
                               THEN [count |-> 1, resetTime |-> WindowMs]
                               ELSE NoRec]
    /\ now = 0
    /\ rlLast = NoCall
    /\ winEnd = [k \in Keys |-> -1]
    /\ winHist = [k \in Keys |-> <<>>]
    /\ pc = "streaming"
    /\ req = [message |-> <<"h", "i">>, conversationId |-> NoId, modelId |-> NoId]
    /\ http = 200
    /\ models = [rows |-> <<ModelOR, ModelGem>>, preferred |-> NoId]
    /\ configured = {"openrouter"}
    /\ conversation = "cNew" /\ isNewConversation = TRUE /\ selectedModel = ModelOR
    /\ db = [Db0 EXCEPT !.convs["cNew"] = [exists |-> TRUE, owner |-> User,
                                           title |-> "New Conversation", updates |-> {}],
                        !.messages = Append(@, Msg("cNew", "USER", <<"h", "i">>, 1))]
    /\ tx = NoTx /\ txStep = 0 /\ txFailed = FALSE /\ titleTask = "none"
    /\ fullContent = <<>> /\ isComplete = FALSE /\ streamError = "" /\ usage = NoUsage
    /\ adapter = "stub" /\ upstream = NoUpstream /\ wire = <<>> /\ agen = "returned"
    /\ buffer = <<>> /\ hasReceivedContent = FALSE
    /\ pending \in EventSeqs(MaxEvents)
    /\ emitted = pending
    /\ gFrames = <<>> /\ readFault = "none" /\ carried = FALSE
    /\ mgrCall = [method |-> "chatStream", provider |-> "openrouter"]
    /\ chatResult = NoChat
    /\ history = <<>>
    /\ aiMessages = <<Prompt("user", <<"h", "i">>)>>
    /\ frames = <<"start">> /\ outState = "readable" /\ caught = ""
    /\ client = NoClient

NextRelay ==
    \/ RelayDisconnected
    \/ RelayContent
    \/ RelayDone
    \/ RelayError
    \/ RelayIgnored
    \/ RelayExhausted
    \/ ClientDisconnect
    \/ TxWrite
    \/ TxFail
    \/ TxCommit
    \/ TitleStored
    \/ TitleFailed

SpecRelay == InitRelay /\ [][NextRelay]_vars

\* the steps of the start callback: each is the continuation of an await of
\* the generator or of the database, which the event loop runs once the
\* awaited promise has settled
HandlerStep ==
    \/ RelayDisconnected
    \/ RelayContent
    \/ RelayDone
    \/ RelayError
    \/ RelayIgnored
    \/ RelayExhausted
    \/ TxWrite
    \/ TxFail
    \/ TxCommit

\* the relay with a handler that is not suspended forever; the client and
\* the title task are free to act or not
SpecRelayLive == SpecRelay /\ WF_vars(HandlerStep)

(***************************************************************************)
(* The AIProviderManager called on its own: any provider name, any set of  *)
(* configured adapters, either method; the caller of chatStream iterates   *)
(* the generator to its end.                                               *)
(***************************************************************************)
ProviderNames == {"openrouter", "gemini", "anthropic"}

InitManager ==
    /\ store = [k \in Keys |-> NoRec]
    /\ now = 0
    /\ rlLast = NoCall
    /\ winEnd = [k \in Keys |-> -1]
    /\ winHist = [k \in Keys |-> <<>>]
    /\ pc = "calling"
    /\ req = NoReq /\ http = 0
    /\ models = [rows |-> <<>>, preferred |-> NoId]
    /\ configured \in SUBSET Providers
    /\ conversation = NoId /\ isNewConversation = FALSE /\ selectedModel = NoModel
    /\ history = <<>> /\ aiMessages = <<Prompt("user", <<"h", "i">>)>>
    /\ db = Db0 /\ tx = NoTx /\ txStep = 0 /\ txFailed = FALSE /\ titleTask = "none"
    /\ fullContent = <<>> /\ isComplete = FALSE /\ streamError = "" /\ usage = NoUsage
    /\ adapter = "none" /\ upstream = NoUpstream /\ wire = <<>> /\ agen = "notStarted"
    /\ buffer = <<>> /\ hasReceivedContent = FALSE /\ pending = <<>>
    /\ emitted = <<>> /\ gFrames = <<>> /\ readFault = "none" /\ carried = FALSE
    /\ mgrCall \in [method : {"chat", "chatStream"}, provider : ProviderNames]
    /\ chatResult = NoChat
    /\ frames = <<>> /\ outState = "none" /\ caught = ""
    /\ client = NoClient

\* ai-providers.ts:400-423: chat selects the adapter and awaits its answer
ManagerChat ==
    /\ pc = "calling" /\ mgrCall.method = "chat"
    /\ adapter' = ChatAdapter(mgrCall.provider, configured)
    /\ upstream' \in ChatUpstreamsOf(adapter')
    /\ chatResult' = ManagerChatResult(adapter', upstream')
    /\ pc' = "called"
    /\ UNCHANGED <<req, http, models, configured, conversation, isNewConversation,
                   selectedModel, history, aiMessages>>
    /\ UNCHANGED <<wire, agen, buffer, hasReceivedContent, pending, emitted, gFrames,
                   readFault, carried, mgrCall>>
    /\ UNCHANGED <<rlVars, dbVars, stVars, outVars, client>>

\* ai-providers.ts:425-450: chatStream returns the generator; nothing of it
\* runs before the first pull
ManagerChatStream ==
    /\ pc = "calling" /\ mgrCall.method = "chatStream"
    /\ adapter' = SelectAdapter(mgrCall.provider, configured)
    /\ upstream' \in UpstreamsOf(adapter')
    /\ wire' = Flatten(upstream'.parts)
    /\ pc' = "streaming"
    /\ UNCHANGED <<req, http, models, configured, conversation, isNewConversation,
                   selectedModel, history, aiMessages>>
    /\ UNCHANGED <<agen, buffer, hasReceivedContent, pending, emitted, gFrames,
                   readFault, carried, mgrCall, chatResult>>
    /\ UNCHANGED <<rlVars, dbVars, stVars, outVars, client>>

\* the caller's for-await takes the next event
Consume ==
    /\ pc = "streaming" /\ pending # <<>>
    /\ pending' = Tail(pending)
    /\ UNCHANGED <<mgrCall, chatResult, adapter, upstream, wire, agen, buffer,
                   hasReceivedContent, emitted, gFrames, readFault, carried>>
    /\ UNCHANGED <<rlVars, reqVars, dbVars, stVars, outVars, client>>

NextManager ==
    \/ ManagerChat
    \/ ManagerChatStream
    \/ ManagerNoProvider
    \/ AdapterHttpError
    \/ AdapterNoBody
    \/ AdapterOpen
    \/ \E k \in 1..Len(wire) : OpenRouterReadChunk(k)
    \/ \E k \in 1..Len(wire) : GeminiReadChunk(k)
    \/ OpenRouterEnd
    \/ GeminiEnd
    \/ AdapterReadFail
    \/ Consume

SpecManager == InitManager /\ [][NextManager]_vars

(***************************************************************************)
(* Predicates the claims are stated with                                   *)
(***************************************************************************)
\* the assistant message of this request is in the store
AsstPersisted ==
    \E i \in 1..Len(db.messages) :
        db.messages[i].req = 1 /\ db.messages[i].role = "ASSISTANT"

\* the usage-ledger row of this request is in the store
UsagePersisted == \E i \in 1..Len(db.usage) : db.usage[i].req = 1

\* the user message of this request is in the store
UserPersisted ==
    \E i \in 1..Len(db.messages) :
        db.messages[i] = Msg(conversation, "USER", req.message, 1)

\* the transaction's bump of the conversation's updatedAt is in the store
ConvBumped == conversation # NoId /\ "tx" \in db.convs[conversation].updates

\* the events the for-await loop has received from the generator
Yielded == SubSeq(emitted, 1, Len(emitted) - Len(pending))

DoneYielded == \E i \in 1..Len(Yielded) : Yielded[i].type = "done"

ErrorYielded == \E i \in 1..Len(Yielded) : Yielded[i].type = "error"

TerminalFrames == {i \in 1..Len(frames) : frames[i] \in {"done", "error"}}

ClientGone == outState \in {"cancelled", "errored"}

CompleteWritten == \E i \in 1..Len(frames) : frames[i] = "complete"

DoneWritten == \E i \in 1..Len(frames) : frames[i] = "done"

SentinelWritten == \E i \in 1..Len(frames) : frames[i] = "[DONE]"

IsPrefix(a, b) == Len(a) <= Len(b) /\ SubSeq(b, 1, Len(a)) = a

\* the accumulator the relay loop is said to keep: a delta is appended, a
\* cumulative content replaces
RECURSIVE AccOf(_, _)
AccOf(evs, acc) ==
    IF evs = <<>> THEN acc
    ELSE LET e == Head(evs)
         IN  AccOf(Tail(evs),
                   IF e.type # "content" THEN acc
                   ELSE IF e.delta # <<>> THEN acc \o e.delta
                   ELSE IF e.content # <<>> THEN e.content
                   ELSE acc)

(***************************************************************************)
(* Claims about the streaming endpoint and the adapters, checked under     *)
(* Spec (C8 under SpecRelay)                                               *)
(***************************************************************************)
\* C1 as stated, for a client that stays connected: when the request has
\* ended, the assistant message and the usage row are in the store if and only
\* if the adapter stream yielded done and the accumulated content is non-empty
\* after trimming.
C1_PersistedIffReceived ==
    (pc = "finished" /\ ~ClientGone) =>
        ((AsstPersisted /\ UsagePersisted) <=> (DoneYielded /\ Trim(fullContent) # <<>>))

\* C1 amended: the assistant message and the usage row are only ever in the
\* store together and after done was yielded with non-empty trimmed content;
\* when the request has ended they are in the store if and only if the loop
\* handled done while the output still took writes (the complete frame was
\* written), the trimmed content is non-empty and the transaction did not fail.
C1_PersistedIffReceivedAndCommitted ==
    /\ (AsstPersisted \/ UsagePersisted)
          => /\ AsstPersisted /\ UsagePersisted
             /\ DoneYielded /\ isComplete /\ Trim(fullContent) # <<>>
    /\ pc = "finished" =>
          ((AsstPersisted /\ UsagePersisted)
              <=> (CompleteWritten /\ Trim(fullContent) # <<>> /\ ~txFailed))

\* a request that ended with both rows stored
C1_Witness ==
    /\ pc = "finished" /\ AsstPersisted /\ UsagePersisted
    /\ DoneYielded /\ Len(fullContent) >= 2

\* C2: if the adapter stream ends with error, or with done but whitespace-only
\* content, or the loop is left without any terminal event, no assistant
\* message and no usage row is ever stored, and the user message of the request
\* is stored already (it is from the moment the stream is opened).
C2_NoAssistantOnFailure ==
    /\ pc \in {"streaming", "persisting", "finished"} => UserPersisted
    /\ (\/ ErrorYielded
        \/ (DoneYielded /\ Trim(fullContent) = <<>>)
        \/ (pc = "finished" /\ ~DoneYielded /\ ~ErrorYielded))
          => (~AsstPersisted /\ ~UsagePersisted /\ UserPersisted)

\* an error event after content was relayed
C2_Witness ==
    /\ pc = "finished" /\ ErrorYielded /\ fullContent # <<>>
    /\ UserPersisted /\ ~AsstPersisted /\ ~UsagePersisted

\* C3: the events of chatStream are content events followed by exactly one
\* terminal event: no event but the last is terminal, the generator has
\* returned exactly when the last event is terminal.
C3_OneTerminalEventLast ==
    /\ \A i \in 1..(Len(emitted) - 1) : emitted[i].type = "content"
    /\ agen = "returned" => (emitted # <<>> /\ IsTerminal(emitted[Len(emitted)]))
    /\ (emitted # <<>> /\ IsTerminal(emitted[Len(emitted)])) => agen = "returned"

\* a read failure after content was yielded
C3_Witness ==
    /\ agen = "returned" /\ Len(emitted) >= 2
    /\ emitted[1].type = "content"
    /\ emitted[Len(emitted)].type = "error"

\* C4: on the client-facing stream the start frame is first, at most one
\* terminal frame (done or error) is written, only the [DONE] sentinel follows
\* it, and a request that ended with the client still connected wrote exactly
\* one.
C4_OneTerminalFrame ==
    /\ frames # <<>> => frames[1] = "start"
    /\ Cardinality(TerminalFrames) <= 1
    /\ \A i \in TerminalFrames : \A j \in (i + 1)..Len(frames) : frames[j] = "[DONE]"
    /\ (pc = "finished" /\ ~ClientGone) => Cardinality(TerminalFrames) = 1

\* C5: for a body made of complete back-to-back objects, read in any chunks,
\* the Gemini scanner hands the objects to JSON.parse once each, in order and
\* with their text unchanged; once the whole body is read all of them were.
C5_ChunkBoundaryIndependence ==
    (adapter = "gemini" /\ upstream.pure)
        => /\ IsPrefix(gFrames, upstream.parts)
           /\ wire = <<>> => gFrames = upstream.parts

\* a body of two objects read in chunks that cut an object
C5_Witness ==
    /\ adapter = "gemini" /\ upstream.pure /\ carried
    /\ wire = <<>> /\ Len(gFrames) = 2 /\ gFrames = upstream.parts

C9_PersistAllOrNothing ==
    /\ AsstPersisted <=> UsagePersisted
    /\ UsagePersisted <=> ConvBumped
    /\ txFailed => (~AsstPersisted /\ ~UsagePersisted /\ ~ConvBumped)

\* the transaction failed after its three writes were made
C9_Witness ==
    /\ txFailed /\ txStep = 3
    /\ ~AsstPersisted /\ ~UsagePersisted /\ ~ConvBumped

\* C10: the done frame is written only when the transaction has committed;
\* after a failed transaction neither done nor the sentinel is written, and a
\* client that is still connected gets an error frame as the last frame.
C10_DoneOnlyAfterCommit ==
    /\ DoneWritten => (AsstPersisted /\ UsagePersisted /\ ConvBumped)
    /\ txFailed => (~DoneWritten /\ ~SentinelWritten)
    /\ (txFailed /\ ~ClientGone) => frames[Len(frames)] = "error"

\* a failed transaction reported to a connected client
C10_Witness ==
    /\ txFailed /\ pc = "finished" /\ ~ClientGone
    /\ CompleteWritten /\ frames[Len(frames)] = "error"

(***************************************************************************)
(* Claims about the rate limiter, checked under SpecRL                     *)
(***************************************************************************)
\* C6: for one key with limit LimitN and window WindowMs, under any
\* interleaving of calls (other keys included), exactly the first LimitN calls
\* made inside one window succeed, and every further call of that window is
\* denied with a resetTime that is not earlier than the time of the call.
C6_ExactlyFirstNSucceed ==
    /\ \A k \in Keys : \A i \in 1..Len(winHist[k]) : winHist[k][i] = (i <= LimitN)
    /\ (rlLast.key # "none" /\ ~rlLast.result.success)
            => rlLast.result.resetTime >= rlLast.t

\* a window of u1 with LimitN allowed calls followed by a denied one, while u2
\* has called too
C6_Witness ==
    /\ Len(winHist["u1"]) = LimitN + 1
    /\ ~winHist["u1"][LimitN + 1]
    /\ Len(winHist["u2"]) >= 1
    /\ rlLast.key = "u1" /\ ~rlLast.result.success

\* C7: a call made once the record's resetTime has elapsed (now > resetTime)
\* discards the record and starts a fresh window with count 0: it succeeds
\* with remaining = limit - 1 and resetTime = now + windowMs, whatever happened
\* in the previous window.
C7_FreshWindowAfterReset ==
    (rlLast.key # "none" /\ rlLast.prev # NoRec /\ rlLast.t > rlLast.prev.resetTime)
        => /\ rlLast.result.success
           /\ rlLast.result.remaining = LimitN - 1
           /\ rlLast.result.resetTime = rlLast.t + WindowMs
           /\ store[rlLast.key] = [count |-> 1, resetTime |-> rlLast.t + WindowMs]

\* the call after a window in which the limit was used up and a call was denied
C7_Witness ==
    /\ rlLast.key # "none" /\ rlLast.prev # NoRec
    /\ rlLast.t > rlLast.prev.resetTime
    /\ rlLast.prev.count = LimitN
    /\ Len(rlLast.prevHist) > LimitN
    /\ rlLast.result.success

\* C26: a denied call returns remaining 0 and the resetTime of the window it
\* fell into and leaves the record as it was; the end of a window never moves
\* while the record lives, however many calls are denied.
C26_DeniedLeavesRecord ==
    /\ (rlLast.key # "none" /\ ~rlLast.result.success) =>
          /\ rlLast.prev # NoRec /\ rlLast.prev.count >= LimitN
          /\ rlLast.result.remaining = 0
          /\ rlLast.result.resetTime = rlLast.prev.resetTime
          /\ store[rlLast.key] = rlLast.prev
    /\ \A k \in Keys : store[k] # NoRec => store[k].resetTime = winEnd[k]

\* C26 witness: the second denied call in a row inside one window, made
\* later than the first
C26_Witness ==
    /\ rlLast.key = "u1" /\ ~rlLast.result.success
    /\ Len(rlLast.prevHist) = LimitN + 1 /\ ~rlLast.prevHist[LimitN + 1]
    /\ Len(winHist["u1"]) = LimitN + 2
    /\ rlLast.t > winEnd["u1"] - WindowMs
    /\ store["u1"].count = LimitN

(***************************************************************************)
(* Claims about the AIProviderManager, checked under SpecManager           *)
(***************************************************************************)
\* the call reported that no provider is available
NoProviderReported ==
    \/ mgrCall.method = "chat" /\ chatResult.status = "threw"
          /\ chatResult.error = "No AI providers available"
    \/ mgrCall.method = "chatStream"
          /\ \E i \in 1..Len(emitted) : emitted[i] = ErrorEv("No AI providers available")

\* the call has run to its end
CallEnded ==
    \/ mgrCall.method = "chat" /\ pc = "called"
    \/ mgrCall.method = "chatStream" /\ pc = "streaming" /\ agen = "returned"

\* C11: chat and chatStream delegate to the adapter of the requested name
\* when it is configured, otherwise to the one adapter that is configured, and
\* report that no provider is available exactly when none is configured.
C11_ManagerDelegation ==
    (mgrCall.method # "none" /\ pc # "calling") =>
        /\ mgrCall.provider \in configured => adapter = mgrCall.provider
        /\ (mgrCall.provider \notin configured /\ Cardinality(configured) = 1)
               => adapter \in configured
        /\ adapter \in configured \cup {"none"}
        /\ (adapter = "none") <=> (configured = {})
        /\ NoProviderReported => configured = {}
        /\ (CallEnded /\ configured = {}) => NoProviderReported

\* C11 witness: gemini is requested, only openrouter is configured, and the
\* blocking chat was answered by the openrouter adapter.
C11_Witness ==
    /\ mgrCall = [method |-> "chat", provider |-> "gemini"]
    /\ configured = {"openrouter"}
    /\ pc = "called" /\ adapter = "openrouter"
    /\ chatResult.status = "returned"

\* a failure of the call: no adapter, an HTTP error, no body, a failed read
CallFailed ==
    \/ adapter = "none"
    \/ upstream.kind \in {"fetchFailed", "httpError", "noBody"}
    \/ readFault = "failed"

\* C12: chatStream never throws into its consumer; each failure shows as one
\* error event, the last of the sequence. The blocking chat throws instead and
\* yields no event.
C12_StreamFailsByEvent ==
    /\ agen # "threw"
    /\ mgrCall.method = "chatStream" =>
          /\ chatResult = NoChat
          /\ (agen = "returned" /\ CallFailed) =>
                /\ emitted # <<>> /\ emitted[Len(emitted)].type = "error"
                /\ Cardinality({i \in 1..Len(emitted) : IsTerminal(emitted[i])}) = 1
    /\ (mgrCall.method = "chat" /\ pc = "called") =>
          /\ emitted = <<>>
          /\ CallFailed <=> chatResult.status = "threw"
          /\ ~CallFailed <=> chatResult.status = "returned"

\* C12 witness: the read of the body failed after content had been yielded,
\* and the sequence ended with an error event.
C12_Witness ==
    /\ mgrCall.method = "chatStream" /\ agen = "returned"
    /\ readFault = "failed"
    /\ Len(emitted) >= 2 /\ emitted[1].type = "content"
    /\ emitted[Len(emitted)].type = "error"

(***************************************************************************)
(* Claims about the Gemini adapter, checked under SpecManager              *)
(***************************************************************************)
\* the first object the scanner recovered is a complete response: text and
\* finishReason STOP
FirstComplete ==
    /\ mgrCall.method = "chatStream" /\ adapter = "gemini"
    /\ gFrames # <<>>
    /\ LET p == GeminiJSON(gFrames[1])
       IN  p.ok /\ p.text # <<>> /\ p.finishReason = "STOP"

FirstText == GeminiJSON(gFrames[1]).text

\* the deltas of the content events of evs, concatenated
RECURSIVE ConcatDeltas(_)
ConcatDeltas(evs) ==
    IF evs = <<>> THEN <<>>
    ELSE (IF Head(evs).type = "content" THEN Head(evs).delta ELSE <<>>)
            \o ConcatDeltas(Tail(evs))

\* the positions of t that hold a space
SpacesOf(t) == {k \in 1..Len(t) : t[k] = " "}

\* content events, then one done, and the deltas make up the text
TokenStream ==
    /\ Len(emitted) >= 2
    /\ emitted[Len(emitted)] = DoneEv
    /\ \A i \in 1..(Len(emitted) - 1) : emitted[i].type = "content"
    /\ ConcatDeltas(emitted) = FirstText

\* words separated by single spaces, no space at either end
SingleSpaced(t) ==
    /\ t # <<>> /\ t[1] # " " /\ t[Len(t)] # " "
    /\ \A k \in 1..(Len(t) - 1) : ~(t[k] = " " /\ t[k + 1] = " ")

\* C13 as stated, for a text of words separated by single spaces: a complete
\* first response is yielded token by token, each token after the first
\* carrying the space before it ("Hi", " there"), then one done.
C13_TokensCarryPrecedingSpace ==
    (FirstComplete /\ SingleSpaced(FirstText)) =>
        /\ TokenStream
        /\ \A i \in 1..(Len(emitted) - 1) :
              /\ emitted[i].delta # <<>>
              /\ SpacesOf(emitted[i].delta) \subseteq (IF i > 1 THEN {1} ELSE {})
        /\ \A i \in 2..(Len(emitted) - 1) : Head(emitted[i].delta) = " "

\* C13 amended: a complete first response is yielded piece by piece, the
\* pieces being what lies between single spaces, each piece but the last
\* carrying the space after it ("Hi ", "there"), then one done; the deltas
\* make up the text and a text with a space is never yielded as one event.
C13_TokensCarryFollowingSpace ==
    FirstComplete =>
        /\ TokenStream
        /\ \A i \in 1..(Len(emitted) - 2) :
              /\ emitted[i].delta # <<>>
              /\ SpacesOf(emitted[i].delta) = {Len(emitted[i].delta)}
        /\ SpacesOf(emitted[Len(emitted) - 1].delta) = {}
        /\ Len(emitted) - 1 = Cardinality(SpacesOf(FirstText)) + 1

\* C13 witness: the complete response "Hi there" was yielded as "Hi ",
\* "there" and done.
C13_Witness ==
    /\ FirstComplete /\ agen = "returned"
    /\ FirstText = <<"H", "i", " ", "t", "h", "e", "r", "e">>
    /\ emitted = <<ContentEv(<<"H", "i", " ">>), ContentEv(<<"t", "h", "e", "r", "e">>),
                   DoneEv>>

\* no object the scanner recovered carried text
NoContentBearing ==
    \A i \in 1..Len(gFrames) :
        LET p == GeminiJSON(gFrames[i]) IN ~p.ok \/ p.text = <<>>

\* C14: a Gemini stream without any content-bearing object ends in error,
\* never in done.
C14_NoContentNeverDone ==
    (/\ mgrCall.method = "chatStream" /\ adapter = "gemini"
     /\ upstream.kind = "body" /\ agen = "returned"
     /\ NoContentBearing)
        => /\ emitted[Len(emitted)].type = "error"
           /\ \A i \in 1..Len(emitted) : emitted[i].type # "done"

(***************************************************************************)
(* Claims about the steps before the stream, checked under Spec            *)
(***************************************************************************)
\* the model resolution of lines 117-144 has run
ModelResolved ==
    \/ pc \in {"savingUserMessage", "streaming", "persisting", "finished"}
    \/ pc = "responded" /\ http = 500

\* the rows of the Model table that satisfy P
RowsWith(P(_)) == {i \in 1..Len(models.rows) : P(models.rows[i])}

IsRequested(m) == req.modelId # NoId /\ m.id = req.modelId

IsPreferred(m) == models.preferred # NoId /\ m.id = models.preferred

IsDefault(m) == m.modelIdentifier = "claude-sonnet-4"

IsActiveModel(m) == m.isActive

\* C15: the model is the requested one if it exists, else the preferred one
\* if it exists, else the one with the default identifier, else an active
\* one; the request fails only when there is none of these.
C15_ModelPriority ==
    ModelResolved =>
        IF RowsWith(IsRequested) # {} THEN IsRequested(selectedModel)
        ELSE IF RowsWith(IsPreferred) # {} THEN IsPreferred(selectedModel)
        ELSE IF RowsWith(IsDefault) # {} THEN IsDefault(selectedModel)
        ELSE IF RowsWith(IsActiveModel) # {} THEN IsActiveModel(selectedModel)
        ELSE selectedModel = NoModel /\ pc = "responded" /\ http = 500

\* the last n elements of s
LastN(s, n) == SubSeq(s, IF Len(s) > n THEN Len(s) - n + 1 ELSE 1, Len(s))

\* the messages the conversation held before the request, oldest first
PersistedBefore == SelectSeq(Db0.messages, LAMBDA m : m.conv = conversation)

\* C16: the prompt is the 20 most recent persisted messages of the
\* conversation, oldest first, followed by the new user message.
C16_MostRecentContext ==
    (mgrCall.method = "chatStream" /\ pc \in {"streaming", "persisting", "finished"}) =>
        LET recent == LastN(PersistedBefore, ContextTake)
        IN  /\ Len(aiMessages) = Len(recent) + 1
            /\ Len(aiMessages) <= ContextTake + 1
            /\ \A i \in 1..Len(recent) : aiMessages[i].content = recent[i].content
            /\ aiMessages[Len(aiMessages)] = Prompt("user", req.message)

\* C17: a request that ended with a validation error, an unknown
\* conversation or no model has left the store as it was and has called no
\* provider.
C17_AbortLeavesStoreUnchanged ==
    (pc = "responded" /\ http \in {400, 404, 500}) =>
        /\ db = Db0
        /\ mgrCall = NoMgrCall /\ upstream = NoUpstream

\* the conversation the request names is not one of the caller's
ForeignConversation ==
    /\ req.conversationId # NoId
    /\ \/ req.conversationId \notin ConvIds
       \/ ~Db0.convs[req.conversationId].exists
       \/ Db0.convs[req.conversationId].owner # User

OwnerOf(c) == IF c \in ConvIds THEN db.convs[c].owner ELSE ""

\* C18: nothing is read from or written to a conversation of another user,
\* and a request that names a conversation that is missing or not the
\* caller's ends with 404 and without a write.
C18_NoForeignConversation ==
    /\ \A i \in 1..Len(history) : OwnerOf(history[i].conv) = User
    /\ \A i \in 1..Len(db.messages) :
          db.messages[i].req = 1 => OwnerOf(db.messages[i].conv) = User
    /\ \A i \in 1..Len(tx.messages) : OwnerOf(tx.messages[i].conv) = User
    /\ \A c \in tx.touched : OwnerOf(c) = User
    /\ \A c \in ConvIds : Db0.convs[c].owner # User /\ Db0.convs[c].exists
                               => db.convs[c] = Db0.convs[c]
    /\ ForeignConversation =>
          /\ pc \in {"start", "validating", "resolvingConversation", "responded"}
          /\ pc = "responded" => http \in {429, 404}
          /\ db = Db0 /\ history = <<>> /\ aiMessages = <<>>
          /\ mgrCall = NoMgrCall

\* C18 witness: the request named the conversation of another user and was
\* answered with 404.
C18_Witness ==
    /\ req.conversationId = "c2" /\ Db0.convs["c2"].owner # User
    /\ pc = "responded" /\ http = 404

(***************************************************************************)
(* Claims about cancellation and the title task, checked under Spec        *)
(***************************************************************************)
\* C19: once the client has gone away during the relay, no step of the
\* request starts or makes a write: the request stays in the relay or ends,
\* the store and the transaction are untouched, and the terminal event of the
\* adapter, done included, ends the relay.
C19_CancelStopsPersistence ==
    [][(ClientGone /\ pc \in {"streaming", "finished"} /\ txStep = 0) =>
          /\ pc' \in {"streaming", "finished"}
          /\ db' = db /\ tx' = NoTx /\ txStep' = 0 /\ titleTask' = "none"
          /\ ~AsstPersisted' /\ ~UsagePersisted'
          /\ (pc = "streaming" /\ pending # <<>> /\ IsTerminal(Head(pending))
                 /\ pending' = Tail(pending)) => pc' = "finished"]_vars

\* C19 witness: the client went away, the adapter then yielded done after
\* content, and the request ended with nothing persisted.
C19_Witness ==
    /\ pc = "finished" /\ outState = "cancelled"
    /\ DoneYielded /\ isComplete /\ Trim(fullContent) # <<>>
    /\ ~CompleteWritten
    /\ ~AsstPersisted /\ ~UsagePersisted /\ txStep = 0

\* C20: the title task runs after the handler has written the done frame and
\* closed the stream; while it runs and when it has failed, the exchange is
\* persisted, the done frame stands and the conversation has its default
\* title.
C20_TitleIsolated ==
    /\ titleTask # "none" =>
          /\ isNewConversation /\ pc = "finished"
          /\ AsstPersisted /\ UsagePersisted /\ ConvBumped
          /\ ~ClientGone => (DoneWritten /\ SentinelWritten /\ outState = "closed")
          /\ \A i \in 1..Len(frames) : frames[i] # "error"
    /\ titleTask \in {"running", "failed"} =>
          db.convs[conversation].title = "New Conversation"

\* C20 witness: the title call failed after the done frame was written.
C20_Witness ==
    /\ titleTask = "failed"
    /\ DoneWritten /\ outState = "closed"
    /\ AsstPersisted /\ UsagePersisted
    /\ db.convs[conversation].title = "New Conversation"

(***************************************************************************)
(* Claims about the parsing of the two adapters, checked under SpecManager *)
(***************************************************************************)
GeminiStream == mgrCall.method = "chatStream" /\ adapter = "gemini" /\ upstream.kind = "body"

OpenRouterStream ==
    mgrCall.method = "chatStream" /\ adapter = "openrouter" /\ upstream.kind = "body"

\* the text of the well-formed objects among fs, concatenated
RECURSIVE FrameTexts(_)
FrameTexts(fs) ==
    IF fs = <<>> THEN <<>>
    ELSE GeminiJSON(Head(fs)).text \o FrameTexts(Tail(fs))

\* C22: when a Gemini stream has ended in done, the deltas yielded make up
\* the text of all objects recovered, the finishing one included.
C22_NoTextLost ==
    (GeminiStream /\ agen = "returned" /\ emitted[Len(emitted)] = DoneEv)
        => ConcatDeltas(emitted) = FrameTexts(gFrames)

\* the objects among the parts of a body, as sent
ObjectsOf(parts) == SelectSeq(parts, LAMBDA q : q # <<>> /\ q[1] = "{")

\* C23: whatever stands inside the strings, the frames the scanner cuts are
\* the objects as they were sent, one frame per top-level object, and the
\* text of each is read back as sent.
C23_StringsDoNotFrame ==
    GeminiStream =>
        /\ Len(gFrames) <= Len(ObjectsOf(upstream.parts))
        /\ \A i \in 1..Len(gFrames) :
              /\ gFrames[i] = ObjectsOf(upstream.parts)[i]
              /\ gFrames[i][1] = "{" /\ gFrames[i][Len(gFrames[i])] = "}"
        /\ (agen = "returned" /\ readFault = "none" /\ wire = <<>>
               /\ emitted[Len(emitted)] = DoneEv /\ gFrames # <<>>
               /\ GeminiJSON(gFrames[Len(gFrames)]).finishReason # "STOP")
              => ConcatDeltas(emitted) = FrameTexts(ObjectsOf(upstream.parts))

\* C23 witness: the objects with a brace, an escaped quote and an escaped
\* backslash inside their strings were cut as sent, from reads that split
\* them, and their text was yielded.
C23_Witness ==
    /\ GeminiStream /\ carried /\ agen = "returned"
    /\ gFrames = <<GObj(<<"a", "{">>, <<>>), GObj(<<"}", "\"", "\\">>, <<"M">>)>>
    /\ emitted = <<ContentEv(<<"a", "{">>), ContentEv(<<"}", "\"", "\\">>), DoneEv>>

\* what the adapter yields for a body read in one piece
WholeBodyEvents ==
    LET r == OpenRouterRead(<<>>, Flatten(upstream.parts))
    IN  IF r.returned THEN r.events ELSE Append(r.events, DoneEv)

\* C24: however the body is split into reads, the OpenRouter adapter yields
\* the events it yields for the body in one piece; the buffer holds the
\* partial line only; after the sentinel one done ends the sequence.
C24_SplitIndependence ==
    (OpenRouterStream /\ readFault = "none") =>
        /\ IsPrefix(emitted, WholeBodyEvents)
        /\ agen = "returned" => emitted = WholeBodyEvents
        /\ \A k \in 1..Len(buffer) : buffer[k] # "\n"
        /\ \A i \in 1..Len(emitted) : emitted[i] = DoneEv => i = Len(emitted)

\* C24 witness: the body with a line after the sentinel, read in pieces that
\* cut a line, gave one content event and done.
C24_Witness ==
    /\ OpenRouterStream /\ carried /\ agen = "returned" /\ readFault = "none"
    /\ upstream.parts = <<ORLine(ORDelta(<<"a">>)), ORLine(DoneSentinel),
                          ORLine(ORDelta(<<"b">>))>>
    /\ emitted = <<ContentEv(<<"a">>), DoneEv>>

\* the data of an SSE line as sent, <<>> when it is no data line
DataOf(line) ==
    IF StartsWith(line, DataPrefix)
    THEN Trim(SubSeq(line, Len(DataPrefix) + 1, Len(line)))
    ELSE <<>>

\* the texts of the well-formed data lines up to the sentinel, concatenated
RECURSIVE LineTexts(_)
LineTexts(lines) ==
    IF lines = <<>> \/ DataOf(Head(lines)) = DoneSentinel THEN <<>>
    ELSE OpenRouterJSON(DataOf(Head(lines))).text \o LineTexts(Tail(lines))

\* some frame of the body is malformed
HasMalformed ==
    \/ GeminiStream /\ \E i \in 1..Len(gFrames) : ~GeminiJSON(gFrames[i]).ok
    \/ OpenRouterStream /\ \E i \in 1..Len(upstream.parts) :
          /\ StartsWith(upstream.parts[i], DataPrefix)
          /\ DataOf(upstream.parts[i]) # DoneSentinel
          /\ ~OpenRouterJSON(DataOf(upstream.parts[i])).ok

\* C27: a malformed frame yields nothing and ends nothing: when the body has
\* been read to its end, the text of every well-formed frame was yielded, and
\* the sequence ends in error only if nothing was yielded.
C27_MalformedSkipped ==
    (HasMalformed /\ agen = "returned" /\ readFault = "none" /\ wire = <<>>) =>
        /\ GeminiStream => ConcatDeltas(emitted) = FrameTexts(gFrames)
        /\ OpenRouterStream => ConcatDeltas(emitted) = LineTexts(upstream.parts)
        /\ emitted[Len(emitted)].type = "error" => ConcatDeltas(emitted) = <<>>

\* the last line of the body is a data line with a delta and no newline
LastLineUnterminated ==
    /\ OpenRouterStream /\ upstream.parts # <<>>
    /\ LET last == upstream.parts[Len(upstream.parts)]
       IN  /\ StartsWith(last, DataPrefix) /\ last[Len(last)] # "\n"
           /\ OpenRouterJSON(DataOf(last)).ok
           /\ OpenRouterJSON(DataOf(last)).text # <<>>

\* C29: the delta of a last data line without newline is yielded as the
\* content event before the final done.
C29_LastLineNotLost ==
    (LastLineUnterminated /\ agen = "returned" /\ readFault = "none" /\ wire = <<>>) =>
        LET last == upstream.parts[Len(upstream.parts)]
        IN  /\ Len(emitted) >= 2
            /\ emitted[Len(emitted)] = DoneEv
            /\ emitted[Len(emitted) - 1] = ContentEv(OpenRouterJSON(DataOf(last)).text)

(***************************************************************************)
(* Claims about the end of the relay                                       *)
(***************************************************************************)
\* the handler has finished after the client went away during streaming,
\* before a done or an error event of the provider was relayed
FinishedAfterDisconnect ==
    pc = "finished" /\ ClientGone /\ ~isComplete /\ streamError = ""

\* C25: a client that goes away during streaming ends the relay without an
\* error: the catch block of the handler has caught nothing.
C25_DisconnectRaisesNoError == FinishedAfterDisconnect => caught = ""

\* the last n frames of the response
LastFrames(n) == SubSeq(frames, Len(frames) - n + 1, Len(frames))

\* C28: a request that is streaming comes to its end with the stream closed
\* by the handler, unless the client went away; and a stream the handler
\* closed ends with the done frame and the sentinel when nothing was caught,
\* and with the error frame when an error was.
C28_StreamEventuallyClosed ==
    /\ (pc = "streaming") ~> (pc = "finished" /\ (outState = "closed" \/ ClientGone))
    /\ [](outState = "closed" =>
            /\ pc = "finished"
            /\ caught = "" => Len(frames) >= 2 /\ LastFrames(2) = <<"done", "[DONE]">>
            /\ caught # "" => LastFrames(1) = <<"error">>)

\* C28 witness: the events ran out without done, the completion check threw
\* and the stream was closed after the error frame.
C28_Witness ==
    /\ pc = "finished" /\ outState = "closed" /\ caught = CompletionError
    /\ emitted # <<>> /\ \A i \in 1..Len(emitted) : ~IsTerminal(emitted[i])
    /\ LastFrames(1) = <<"error">>

(***************************************************************************)
(* Claims about the usage that is reported                                 *)
(***************************************************************************)
\* what the estimator gives for the messages sent and the text received
Estimated(text) ==
    LET inputTokens == CeilQuarter(Len(JoinSpace([i \in 1..Len(aiMessages) |->
                                                     aiMessages[i].content])))
        outputTokens == CeilQuarter(Len(text))
    IN  [inputTokens |-> inputTokens, outputTokens |-> outputTokens,
         totalTokens |-> inputTokens + outputTokens]

\* C21: the non-streaming endpoint, given an answer without token counts,
\* reports the estimate: the fourth part, rounded up, of the length of the
\* contents joined by spaces and of the length of the answer, and their sum.
C21_ChatUsageEstimated ==
    (pc = "responded" /\ http = 200 /\ mgrCall.method = "chat"
        /\ chatResult.inputTokens = 0 /\ chatResult.outputTokens = 0)
        => usage = Estimated(chatResult.content)

(***************************************************************************)
(* Claim about the streaming client                                        *)
(***************************************************************************)
\* C30: when handleSubmit has run to its end, the component is neither
\* streaming nor loading, and the message of an error frame it read is its
\* error.
C30_ClientLeavesStreaming ==
    client.phase = "settled" =>
        /\ ~client.isStreaming
        /\ ~client.isLoading
        /\ \A i \in 1..Len(client.seen) :
              client.seen[i].type = "error" => client.error = client.seen[i].error
====
